---------------------------- MODULE Spec2Model ----------------------------
(***************************************************************************)
(* Model of the audio comparison of src/AudioManager.js (compareAudio and  *)
(* the descriptor extractors and similarity functions it calls).           *)
(*                                                                         *)
(* Numbers.  The code computes in IEEE doubles; the model carries every    *)
(* real as an integer on a fixed grid and floors every quotient, root and  *)
(* logarithm onto that grid:                                               *)
(*   samples            in units of 1/AmpUnit   (nominally -1..1)          *)
(*   RMS values         in units of 1/AmpUnit                              *)
(*   log band energies  in units of 1/LogUnit                              *)
(*   pitches, centroids in units of 1/HzUnit Hz                            *)
(*   similarity terms   in units of 1/TermUnit  (0..1)                     *)
(*   rawScore           in units of 1/RawUnit                              *)
(*   adjustedScore      in units of 1/AdjUnit                              *)
(* NaN, which the code produces from 0/0, is the value NaN; it propagates  *)
(* through arithmetic, Math.min, Math.max and Math.round as in JavaScript, *)
(* and every comparison with it is false.  The grid arithmetic is exact:   *)
(* the rounding residues of doubles (a variance that comes out as 1e-17    *)
(* instead of 0) are not modelled.                                         *)
(*                                                                         *)
(* Sizes.  The code cuts frames of 2048 samples with hops of 512 (timbre,  *)
(* pitch), 1024 (envelope) and 2048 (centroid).  The model keeps these     *)
(* ratios, 4 : 1 : 2 : 4, and takes the number of samples per hop from     *)
(* HopSamples, so that every frame loop, every off-by-one of the loop      *)
(* guards and the lag cap windowSize/2 are those of the code on a coarser  *)
(* time grid.                                                              *)
(***************************************************************************)
EXTENDS Integers, Sequences, FiniteSets, TLC

(***************************************************************************)
(* Bounds of the model.                                                    *)
(***************************************************************************)
\* samples per hop (the code's hopSize of 512 on the model's time grid)
HopSamples == 4

(***************************************************************************)
(* Grids.                                                                  *)
(***************************************************************************)
AmpUnit == 10^3
LogUnit == 2^4
HzUnit == 10^2
TermUnit == 10^3
RawUnit == 100 * TermUnit
AdjUnit == 100 * RawUnit

NaN == -(2^30)
IsNaN(x) == x = NaN

NULL == [sampleRate |-> 0, channels |-> <<>>]

(***************************************************************************)
(* Integer helpers.                                                        *)
(***************************************************************************)
Abs(x) == IF x < 0 THEN -x ELSE x
Min2(x, y) == IF x <= y THEN x ELSE y
Max2(x, y) == IF x >= y THEN x ELSE y

RECURSIVE SumTo(_, _)
\* f[0] + ... + f[n-1] for a function f on 0..n-1
SumTo(f, n) == IF n = 0 THEN 0 ELSE SumTo(f, n - 1) + f[n - 1]

RECURSIVE MulDivQR(_, _, _)
\* <<q, r>> with a * m = q * d + r and 0 <= r < d, for a, m >= 0 and d > 0,
\* without forming a * m (which can exceed the integer width)
MulDivQR(a, m, d) ==
    IF m = 0 THEN <<0, 0>>
    ELSE IF m % 2 = 1
         THEN LET h == MulDivQR(a, m - 1, d)
                  t == h[2] + (a % d)
              IN  <<h[1] + (a \div d) + (t \div d), t % d>>
         ELSE LET h == MulDivQR(a, m \div 2, d)
                  t == 2 * h[2]
              IN  <<2 * h[1] + (t \div d), t % d>>

\* floor(a * m / d) for m >= 0, d > 0 and any sign of a
MulDiv(a, m, d) ==
    IF a >= 0 THEN MulDivQR(a, m, d)[1]
    ELSE LET h == MulDivQR(-a, m, d)
         IN  IF h[2] = 0 THEN -h[1] ELSE -h[1] - 1

Limb == 2^13

\* a * b as <<hi, lo>> with a * b = hi * Limb^2 + lo, for 0 <= a, b < Limb^2
BigMul(a, b) ==
    LET a1 == a \div Limb
        a0 == a % Limb
        b1 == b \div Limb
        b0 == b % Limb
        mid == a1 * b0 + a0 * b1
        t == (mid % Limb) * Limb + a0 * b0
    IN  <<a1 * b1 + (mid \div Limb) + (t \div (Limb * Limb)), t % (Limb * Limb)>>

BigLeq(x, y) == x[1] < y[1] \/ (x[1] = y[1] /\ x[2] <= y[2])

RECURSIVE SqrtSearch(_, _, _)
\* greatest s' >= s built from the bits below and including `bit` with s'^2 <= p
SqrtSearch(p, s, bit) ==
    IF bit = 0 THEN s
    ELSE IF BigLeq(BigMul(s + bit, s + bit), p)
         THEN SqrtSearch(p, s + bit, bit \div 2)
         ELSE SqrtSearch(p, s, bit \div 2)

\* floor(sqrt(a * b)): Math.sqrt of a product, for 0 <= a, b < Limb^2
SqrtProd(a, b) == SqrtSearch(BigMul(a, b), 0, (Limb * Limb) \div 2)

\* floor(sqrt(a)): Math.sqrt
Sqrt(a) == SqrtProd(a, 1)

(***************************************************************************)
(* Math.log and Math.log10 on the grid 1/LnUnit.                           *)
(***************************************************************************)
LnUnit == 2^12

RECURSIVE FloorLog2(_)
FloorLog2(n) == IF n < 2 THEN 0 ELSE 1 + FloorLog2(n \div 2)

\* n scaled into 2^14 .. 2^15 - 1
Mantissa(n) ==
    LET e == FloorLog2(n)
    IN  IF e <= 14 THEN n * 2^(14 - e) ELSE n \div 2^(e - 14)

RECURSIVE Log2Frac(_, _)
\* the first k fractional bits of log2(y / 2^14), by repeated squaring
Log2Frac(y, k) ==
    IF k = 0 THEN 0
    ELSE IF y * y >= 2^29
         THEN 2^(k - 1) + Log2Frac((y * y) \div 2^15, k - 1)
         ELSE Log2Frac((y * y) \div 2^14, k - 1)

\* log2(n) for an integer n >= 1
Log2(n) == IF n = 1 THEN 0 ELSE FloorLog2(n) * LnUnit + Log2Frac(Mantissa(n), 12)

\* Math.log(n / d) for integers n, d >= 1
Ln(n, d) == MulDiv(Log2(n) - Log2(d), 693147, 10^6)

\* Math.log10(n / d) for integers n, d >= 1
Log10(n, d) == MulDiv(Ln(n, d), 10^6, 2302585)

(***************************************************************************)
(* Arrays.  A Float32Array is a sequence; the code's index i is i + 1.     *)
(***************************************************************************)
At(a, i) == a[i + 1]

\* a.slice(from, to), for 0 <= from <= to
Slice(a, from, to) == SubSeq(a, from + 1, Min2(to, Len(a)))

\* the number of passes of  for (pos = 0; pos < length - windowSize; pos += hopSize)
NumFrames(length, window, hop) ==
    IF length - window <= 0 THEN 0 ELSE ((length - window - 1) \div hop) + 1

(***************************************************************************)
(* extractMFCCFeatures.                                                    *)
(***************************************************************************)
hopSize == HopSamples
windowSize == 4 * hopSize
numBands == 13

\* The mel value 2595 * log10(1 + hz/700) of the frequency hz = n/d.
HzToMel(n, d) == 2595 * Log10(700 * d + n, 700 * d)

\* freq >= melBands[b], for freq = i * sampleRate / windowSize.  The code
\* holds melBands[b] in Hz, 700 * (10^(melFreq/2595) - 1) with
\* melFreq = (b / numBands) * HzToMel(sampleRate / 2); that map from mel to
\* Hz is the increasing inverse of HzToMel, so the comparison in Hz is the
\* comparison of the mel values, made here without the division by numBands.
AtOrAboveBand(i, b, sampleRate) ==
    numBands * HzToMel(i * sampleRate, windowSize) >= b * HzToMel(sampleRate, 2)

\* the band b < numBands - 1 whose [melBands[b], melBands[b+1]) holds bin i's
\* frequency, or numBands when the inner loop ends without a break
BandOfBin(i, sampleRate) ==
    LET hit == {b \in 0..(numBands - 2) :
                    /\ AtOrAboveBand(i, b, sampleRate)
                    /\ ~AtOrAboveBand(i, b + 1, sampleRate)}
    IN  IF hit = {} THEN numBands ELSE CHOOSE b \in hit : \A c \in hit : b <= c

\* Math.log(1e-10), the log energy of a band that received nothing
LnEpsilon == -2 * Ln(10^5, 1)

\* Math.log(AmpUnit^2): energies are sums of squares of samples in 1/AmpUnit
LnAmpUnitSquared == 2 * Ln(AmpUnit, 1)

\* Math.log(e + 1e-10) for e = energy / AmpUnit^2; 1e-10 is below the grid
\* unless e = 0
LogEnergy(energy) ==
    LET l == IF energy = 0 THEN LnEpsilon ELSE Ln(energy, 1) - LnAmpUnitSquared
    IN  (l * LogUnit) \div LnUnit

\* logEnergies of one frame; bands[i] is the band of bin i
FrameLogEnergies(frame, bands) ==
    LET energy(b) == SumTo([i \in 0..((windowSize \div 2) - 1) |->
                              IF bands[i] = b THEN At(frame, i) * At(frame, i) ELSE 0],
                           windowSize \div 2)
    IN  [b \in 1..numBands |-> LogEnergy(energy(b - 1))]

\* The sample rates of the buffers the model compares.  On the model's time
\* grid the lag loop of extractPitchContour runs over lags 4..7 at 2000 and
\* over no lag at 4000 (HopSamples = 4), and bin windowSize/2 - 1 falls
\* below melBands[12] at 2000 and above it at 4000.
SampleRates == {2000, 4000}

\* The sample rates of the waveforms a single extractor is applied to: those
\* above and one that, like 44100, is no multiple of maxFreq.
AnalysedRates == SampleRates \cup {2205}

\* BandOfBin for every bin, once per sample rate (the code builds melBands
\* once per call and reuses it for every frame)
BinBands ==
    [sampleRate \in AnalysedRates |->
        [i \in 0..((windowSize \div 2) - 1) |-> BandOfBin(i, sampleRate)]]

extractMFCCFeatures(audioData, sampleRate) ==
    [k \in 1..NumFrames(Len(audioData), windowSize, hopSize) |->
        FrameLogEnergies(Slice(audioData, (k - 1) * hopSize, (k - 1) * hopSize + windowSize),
                         BinBands[sampleRate])]

(***************************************************************************)
(* calculateMFCCSimilarity: mean cosine similarity, in 1/TermUnit.         *)
(***************************************************************************)
Dot(f1, f2) == SumTo([j \in 0..(Len(f1) - 1) |-> At(f1, j) * At(f2, j)], Len(f1))

\* dotProduct / (Math.sqrt(mag1 * mag2) + 1e-10)
Cosine(f1, f2) ==
    LET root == SqrtProd(Dot(f1, f1), Dot(f2, f2))
    IN  IF root = 0 THEN 0 ELSE MulDiv(Dot(f1, f2), TermUnit, root)

\* AlignedIndex walking the longer sequence from its last frame
AlignedIndexFromBack(i, length, minFrames) ==
    length - 1 - ((i * length) \div minFrames)

\* Math.floor(i * length / minFrames)
AlignedIndex(i, length, minFrames) == (i * length) \div minFrames

calculateMFCCSimilarity(features1, features2) ==
    IF Len(features1) = 0 \/ Len(features2) = 0 THEN 0
    ELSE LET minFrames == Min2(Len(features1), Len(features2))
             similarity(i) ==
                 Cosine(At(features1, AlignedIndex(i, Len(features1), minFrames)),
                        At(features2, AlignedIndex(i, Len(features2), minFrames)))
         IN  SumTo([i \in 0..(minFrames - 1) |-> similarity(i)], minFrames) \div minFrames

(***************************************************************************)
(* extractPitchContour: one pitch per frame, in 1/HzUnit Hz, 0 = unvoiced. *)
(***************************************************************************)
minFreq == 80
maxFreq == 500

\* corr at one lag: the sum of frame[i] * frame[i + lag] over i < windowSize - lag
Autocorrelation(frame, lag) ==
    SumTo([i \in 0..(windowSize - lag - 1) |-> At(frame, i) * At(frame, i + lag)],
          windowSize - lag)

\* the lags of  for (lag = minLag; lag < maxLag && lag < windowSize / 2; lag++)
SearchedLags(sampleRate) ==
    {lag \in (sampleRate \div maxFreq)..((sampleRate \div minFreq) - 1) :
        2 * lag < windowSize}

\* maxCorr > 3
AboveVoicingThresholdTenfold(corr) == corr > 3 * AmpUnit * AmpUnit

\* maxCorr > 0.3, for a correlation in units of 1/AmpUnit^2
AboveVoicingThreshold(corr) == 10 * corr > 3 * AmpUnit * AmpUnit

RECURSIVE LagSearch(_, _, _, _)
\* the lag loop from `lag` on; best = <<maxCorr, bestLag>>, or <<>> while
\* maxCorr is still -Infinity
LagSearch(frame, lag, sampleRate, best) ==
    IF lag \notin SearchedLags(sampleRate) THEN best
    ELSE LET corr == Autocorrelation(frame, lag)
         IN  IF best = <<>> \/ corr > best[1]
             THEN LagSearch(frame, lag + 1, sampleRate, <<corr, lag>>)
             ELSE LagSearch(frame, lag + 1, sampleRate, best)

FramePitch(frame, sampleRate) ==
    LET best == LagSearch(frame, sampleRate \div maxFreq, sampleRate, <<>>)
        bestLag == IF best = <<>> THEN 0 ELSE best[2]
        pitch == IF bestLag > 0 THEN (sampleRate * HzUnit) \div bestLag ELSE 0
    IN  IF best # <<>> /\ AboveVoicingThreshold(best[1]) THEN pitch ELSE 0

extractPitchContour(audioData, sampleRate) ==
    [k \in 1..NumFrames(Len(audioData), windowSize, hopSize) |->
        FramePitch(Slice(audioData, (k - 1) * hopSize, (k - 1) * hopSize + windowSize),
                   sampleRate)]

(***************************************************************************)
(* calculatePitchContourMatch, in 1/TermUnit.                              *)
(***************************************************************************)
\* PitchPairDiff counting a pair of unvoiced frames as a perfect match
PitchPairDiffCountingUnvoiced(p1, p2) ==
    IF p1 = 0 /\ p2 = 0 THEN <<0, 1>>
    ELSE IF (p1 = 0) # (p2 = 0) THEN <<TermUnit, 1>>
    ELSE <<Min2(TermUnit, MulDiv(Abs(p1 - p2), TermUnit, Max2(p1, p2))), 1>>

\* what one aligned pair adds to <<totalDiff, validFrames>>
PitchPairDiff(p1, p2) ==
    IF p1 = 0 /\ p2 = 0 THEN <<0, 0>>
    ELSE IF (p1 = 0) # (p2 = 0) THEN <<TermUnit, 1>>
    ELSE <<Min2(TermUnit, MulDiv(Abs(p1 - p2), TermUnit, Max2(p1, p2))), 1>>

calculatePitchContourMatch(contour1, contour2) ==
    IF Len(contour1) = 0 \/ Len(contour2) = 0 THEN TermUnit \div 2
    ELSE LET minLen == Min2(Len(contour1), Len(contour2))
             pair == [i \in 0..(minLen - 1) |->
                        PitchPairDiff(At(contour1, AlignedIndex(i, Len(contour1), minLen)),
                                      At(contour2, AlignedIndex(i, Len(contour2), minLen)))]
             totalDiff == SumTo([i \in 0..(minLen - 1) |-> pair[i][1]], minLen)
             validFrames == SumTo([i \in 0..(minLen - 1) |-> pair[i][2]], minLen)
         IN  IF validFrames = 0 THEN TermUnit \div 2
             ELSE TermUnit - (totalDiff \div validFrames)

(***************************************************************************)
(* calculateSpectralCentroid, in 1/HzUnit Hz.                              *)
(***************************************************************************)
fftSize == 4 * hopSize

\* weightedSum / magnitudeSum of one frame, or 0 when magnitudeSum is 0
FrameCentroid(frameData, sampleRate) ==
    LET half == Len(frameData) \div 2
        magnitudeSum == SumTo([i \in 0..(half - 1) |-> Abs(At(frameData, i))], half)
        \* weightedSum * fftSize / sampleRate
        weighted == SumTo([i \in 0..(half - 1) |-> i * Abs(At(frameData, i))], half)
    IN  IF magnitudeSum > 0
        THEN MulDiv(weighted, sampleRate * HzUnit, fftSize * magnitudeSum)
        ELSE 0

calculateSpectralCentroid(audioData, sampleRate) ==
    LET numFrames == Len(audioData) \div fftSize
        totalCentroid ==
            SumTo([frame \in 0..(numFrames - 1) |->
                     FrameCentroid(Slice(audioData, frame * fftSize, frame * fftSize + fftSize),
                                   sampleRate)],
                  numFrames)
    IN  IF numFrames > 0 THEN totalCentroid \div numFrames ELSE 0

(***************************************************************************)
(* calculateRMSEnergyCurve, in 1/AmpUnit.                                  *)
(***************************************************************************)
SumSquares(a, from, count) ==
    SumTo([j \in 0..(count - 1) |-> At(a, from + j) * At(a, from + j)], count)

calculateRMSEnergyCurve(audioData) ==
    [k \in 1..NumFrames(Len(audioData), windowSize, windowSize \div 2) |->
        Sqrt(SumSquares(audioData, (k - 1) * (windowSize \div 2), windowSize)
                \div windowSize)]

(***************************************************************************)
(* calculateCorrelation: Pearson's r, in 1/TermUnit.                       *)
(* The code's num and den are both divided by len; the model keeps the     *)
(* integers len * num and len * den, whose quotient is the same.           *)
(***************************************************************************)
calculateCorrelation(arr1, arr2) ==
    LET len == Min2(Len(arr1), Len(arr2))
        sum1 == SumTo([i \in 0..(len - 1) |-> At(arr1, i)], len)
        sum2 == SumTo([i \in 0..(len - 1) |-> At(arr2, i)], len)
        sum1Sq == SumTo([i \in 0..(len - 1) |-> At(arr1, i) * At(arr1, i)], len)
        sum2Sq == SumTo([i \in 0..(len - 1) |-> At(arr2, i) * At(arr2, i)], len)
        pSum == SumTo([i \in 0..(len - 1) |-> At(arr1, i) * At(arr2, i)], len)
        num == len * pSum - sum1 * sum2
        den == SqrtProd(len * sum1Sq - sum1 * sum1, len * sum2Sq - sum2 * sum2)
    IN  IF len = 0 THEN 0
        ELSE IF den = 0 THEN 0
        ELSE MulDiv(num, TermUnit, den)

(***************************************************************************)
(* AudioBuffer: a sample rate and the channels' samples.  null is NULL.    *)
(***************************************************************************)
BufferLength(buffer) == Len(buffer.channels[1])

\* buffer.getChannelData(channel)
GetChannelData(buffer, channel) == buffer.channels[channel + 1]

(***************************************************************************)
(* reverseAudioBuffer.                                                     *)
(***************************************************************************)
\* reverseAudioBuffer filling channel 0 only; createBuffer's zeros stay in
\* the other channels
reverseAudioBufferFirstChannel(buffer) ==
    LET length == BufferLength(buffer)
    IN  [sampleRate |-> buffer.sampleRate,
         channels |-> [channel \in 1..Len(buffer.channels) |->
                          [i \in 1..length |->
                              IF channel = 1
                              THEN At(GetChannelData(buffer, 0), length - 1 - (i - 1))
                              ELSE 0]]]

\* the buffer reverseAudioBuffer creates and fills
reverseAudioBuffer(buffer) ==
    LET numberOfChannels == Len(buffer.channels)
        length == BufferLength(buffer)
    IN  [sampleRate |-> buffer.sampleRate,
         channels |-> [channel \in 1..numberOfChannels |->
                          [i \in 1..length |->
                              At(GetChannelData(buffer, channel - 1), length - 1 - (i - 1))]]]

(***************************************************************************)
(* JavaScript arithmetic that can meet NaN.                                *)
(***************************************************************************)
\* n / d on the grid 1/unit; 0/0 is NaN.  d = 0 arises with n = 0 only.
Quotient(n, d, unit) ==
    IF IsNaN(n) \/ IsNaN(d) THEN NaN
    ELSE IF d = 0 THEN NaN
    ELSE MulDiv(n, unit, d)

MathSqrt(x) == IF IsNaN(x) THEN NaN ELSE Sqrt(x)

MathMin(x, y) == IF IsNaN(x) \/ IsNaN(y) THEN NaN ELSE Min2(x, y)

MathMax(x, y) == IF IsNaN(x) \/ IsNaN(y) THEN NaN ELSE Max2(x, y)

\* 1 - x on the grid 1/TermUnit
OneMinus(x) == IF IsNaN(x) THEN NaN ELSE TermUnit - x

\* Math.round(x) of x in 1/AdjUnit: the nearest integer, halves upwards
MathRound(x) == IF IsNaN(x) THEN NaN ELSE (x + AdjUnit \div 2) \div AdjUnit

(***************************************************************************)
(* Inputs: the waveforms and sample rates the comparison is run on.        *)
(***************************************************************************)
\* alternating +amplitude, -amplitude
Tone(length, amplitude) ==
    [i \in 1..length |-> IF i % 2 = 1 THEN amplitude ELSE -amplitude]

\* a tone whose amplitude rises from 0 to full scale
Swell(length) ==
    [i \in 1..length |-> (IF i % 2 = 1 THEN 1 ELSE -1) * ((i * AmpUnit) \div length)]

\* a tone whose amplitude falls from full scale to 0
Decay(length) ==
    [i \in 1..length |->
        (IF i % 2 = 1 THEN 1 ELSE -1) * (((length + 1 - i) * AmpUnit) \div length)]

\* period 3: one full-scale sample, two at minus half scale
Triplet(length) ==
    [i \in 1..length |-> IF i % 3 = 1 THEN AmpUnit ELSE -(AmpUnit \div 2)]

Waveforms ==
    { <<>>,                                          \* zero-length
      Tone(windowSize, AmpUnit),                     \* exactly one window
      Tone(2 * windowSize + 1, 0),                   \* silence
      Tone(2 * windowSize + 1, AmpUnit),             \* steady tone
      Tone(2 * windowSize + 1, AmpUnit \div 2),      \* the same at half amplitude
      Tone(2 * windowSize + 1, AmpUnit \div 1000),   \* steady, at the 0.001 floor
      Swell(2 * windowSize + 1),
      Swell(2 * windowSize),
      Decay(2 * windowSize + 1),
      Triplet(2 * windowSize + 1) }

Buffers == {[sampleRate |-> r, channels |-> <<w>>] : r \in SampleRates, w \in Waveforms}

\* a sine at a quarter of the sample rate, sampled from phase 0
PureTone(length, amplitude) ==
    [i \in 1..length |-> amplitude * <<0, 1, 0, -1>>[((i - 1) % 4) + 1]]

\* lengths of the reference tones, in samples
ToneLengths == {5 * hopSize, 10 * hopSize}

\* amplitudes of the reference tones
ToneAmplitudes == {AmpUnit, AmpUnit \div 2, AmpUnit \div 4}

\* a candidate's duration in tenths of its reference's
ToneTenths == {8, 9, 10}

\* the tones compared: references, and candidates at the same or at half
\* the amplitude
ToneArrays ==
    {PureTone((n * t) \div 10, a \div d) :
        n \in ToneLengths, t \in ToneTenths, a \in ToneAmplitudes, d \in {1, 2}}

\* the arrays compareAudio analyses: the waveforms cut to a common length
Normalized ==
    {Slice(w, 0, Len(v)) : w \in Waveforms, v \in Waveforms} \cup ToneArrays

\* extractMFCCFeatures of every analysed array, evaluated once
mfccFeatures ==
    [audioData \in Normalized, sampleRate \in SampleRates |->
        extractMFCCFeatures(audioData, sampleRate)]

(***************************************************************************)
(* compareAudio: the six terms, each in 1/TermUnit.                        *)
(***************************************************************************)
\* 1 - Math.min(1, centroidDiff / Math.max(centroid1, centroid2, 1))
SpectralMatch(centroid1, centroid2) ==
    LET maxCentroid == Max2(Max2(centroid1, centroid2), HzUnit)
    IN  TermUnit - Min2(TermUnit,
                        MulDiv(Abs(centroid1 - centroid2), TermUnit, maxCentroid))

\* Math.sqrt(totalEnergy / minLength), in 1/AmpUnit
TotalRms(normalized, minLength) ==
    MathSqrt(Quotient(SumSquares(normalized, 0, minLength), minLength, 1))

\* EnergyMatch with the louder signal in the numerator
EnergyMatchOfLouder(rms1, rms2) ==
    Quotient(MathMax(rms1, rms2),
             MathMax(MathMax(rms1, rms2), AmpUnit \div 1000),
             TermUnit)

\* Math.min(rms1, rms2) / Math.max(rms1, rms2, 0.001)
EnergyMatch(rms1, rms2) ==
    Quotient(MathMin(rms1, rms2),
             MathMax(MathMax(rms1, rms2), AmpUnit \div 1000),
             TermUnit)

\* DurationMatch on the sample counts, the sample rates left out
DurationMatchOfLengths(buffer1, buffer2) ==
    OneMinus(Quotient(Abs(BufferLength(buffer1) - BufferLength(buffer2)),
                      Max2(BufferLength(buffer1), BufferLength(buffer2)),
                      TermUnit))

\* 1 - Math.abs(dur1 - dur2) / Math.max(dur1, dur2), with dur = length / sampleRate;
\* both durations are taken times sampleRate1 * sampleRate2
DurationMatch(buffer1, buffer2) ==
    LET dur1 == BufferLength(buffer1) * buffer2.sampleRate
        dur2 == BufferLength(buffer2) * buffer1.sampleRate
    IN  OneMinus(Quotient(Abs(dur1 - dur2), Max2(dur1, dur2), TermUnit))

(***************************************************************************)
(* compareAudio: fusion, curve, clamp and rounding.                        *)
(***************************************************************************)
\* the weights of the six terms, in hundredths
Weights ==
    [mfccSimilarity |-> 35, pitchMatch |-> 25, envelopeMatch |-> 15,
     spectralMatch |-> 10, energyMatch |-> 10, durationMatch |-> 5]

\* WeightedScore with the pitch weight 0.20
WeightedScoreLightPitch(t) ==
    IF \E k \in DOMAIN t : IsNaN(t[k]) THEN NaN
    ELSE t.mfccSimilarity * 35 + t.pitchMatch * 20 + t.envelopeMatch * 15
         + t.spectralMatch * 10 + t.energyMatch * 10 + t.durationMatch * 5

\* rawScore in 1/RawUnit; a NaN term makes the sum NaN
WeightedScore(t) ==
    IF \E k \in DOMAIN t : IsNaN(t[k]) THEN NaN
    ELSE t.mfccSimilarity * Weights.mfccSimilarity
         + t.pitchMatch * Weights.pitchMatch
         + t.envelopeMatch * Weights.envelopeMatch
         + t.spectralMatch * Weights.spectralMatch
         + t.energyMatch * Weights.energyMatch
         + t.durationMatch * Weights.durationMatch

\* 50 + (rawScore - 0.7) * 166.67, in 1/AdjUnit
HighCurve(rawScore) == 50 * AdjUnit + (rawScore - (7 * RawUnit) \div 10) * 16667

\* MediumCurve starting from 25
MediumCurveFrom25(rawScore) == 25 * AdjUnit + (rawScore - (4 * RawUnit) \div 10) * 100 * 100

\* 20 + (rawScore - 0.4) * 100
MediumCurve(rawScore) == 20 * AdjUnit + (rawScore - (4 * RawUnit) \div 10) * 100 * 100

\* LowCurve as a plain percentage
LowCurveAsPercent(rawScore) == rawScore * 100 * 100

\* rawScore * 50
LowCurve(rawScore) == rawScore * 50 * 100

\* adjustedScore before the clamp; every comparison with NaN is false
CurveAdjust(rawScore) ==
    IF IsNaN(rawScore) THEN NaN
    ELSE IF 10 * rawScore > 7 * RawUnit THEN HighCurve(rawScore)
    ELSE IF 10 * rawScore > 4 * RawUnit THEN MediumCurve(rawScore)
    ELSE LowCurve(rawScore)

\* Math.max(0, Math.min(100, adjustedScore))
Clamp(adjustedScore) == MathMax(0, MathMin(100 * AdjUnit, adjustedScore))

\* the constants of the try block, for two present buffers
ScoreBreakdown(buffer1, buffer2) ==
    LET sampleRate == buffer1.sampleRate
        data1 == GetChannelData(buffer1, 0)
        data2 == GetChannelData(buffer2, 0)
        minLength == Min2(Len(data1), Len(data2))
        normalized1 == Slice(data1, 0, minLength)
        normalized2 == Slice(data2, 0, minLength)
        mfccSimilarityRaw ==
            calculateMFCCSimilarity(mfccFeatures[normalized1, sampleRate],
                                    mfccFeatures[normalized2, sampleRate])
        pitchContour1 == extractPitchContour(normalized1, sampleRate)
        pitchContour2 == extractPitchContour(normalized2, sampleRate)
        envelope1 == calculateRMSEnergyCurve(normalized1)
        envelope2 == calculateRMSEnergyCurve(normalized2)
        envelopeCorrelation == calculateCorrelation(envelope1, envelope2)
        centroid1 == calculateSpectralCentroid(normalized1, sampleRate)
        centroid2 == calculateSpectralCentroid(normalized2, sampleRate)
        rms1 == TotalRms(normalized1, minLength)
        rms2 == TotalRms(normalized2, minLength)
        terms == [mfccSimilarity |-> (mfccSimilarityRaw + TermUnit) \div 2,
                  pitchMatch     |-> calculatePitchContourMatch(pitchContour1, pitchContour2),
                  envelopeMatch  |-> (envelopeCorrelation + TermUnit) \div 2,
                  spectralMatch  |-> SpectralMatch(centroid1, centroid2),
                  energyMatch    |-> EnergyMatch(rms1, rms2),
                  durationMatch  |-> DurationMatch(buffer1, buffer2)]
        rawScore == WeightedScore(terms)
        curved == CurveAdjust(rawScore)
        adjustedScore == Clamp(curved)
    IN  [minLength |-> minLength,
         pitchContour1 |-> pitchContour1, pitchContour2 |-> pitchContour2,
         envelope1 |-> envelope1, envelope2 |-> envelope2,
         envelopeCorrelation |-> envelopeCorrelation,
         rms1 |-> rms1, rms2 |-> rms2,
         terms |-> terms, rawScore |-> rawScore, curved |-> curved,
         adjustedScore |-> adjustedScore, roundedScore |-> MathRound(adjustedScore)]

\* onComplete(30) of the catch block
FallbackScore == 30

\* compareAudio whose catch block rethrows without calling onComplete
compareAudioRethrowing(buffer1, buffer2) ==
    IF buffer1 = NULL \/ buffer2 = NULL
    THEN [delivered |-> <<>>, caught |-> TRUE, escaped |-> TRUE, breakdown |-> <<>>]
    ELSE [delivered |-> <<ScoreBreakdown(buffer1, buffer2).roundedScore>>,
          caught |-> FALSE, escaped |-> FALSE,
          breakdown |-> <<ScoreBreakdown(buffer1, buffer2)>>]

\* One call of compareAudio(onComplete) with the two slots as given: the
\* values handed to onComplete, whether the catch block ran (console.error),
\* whether an exception left compareAudio, and the constants of the try block.
compareAudio(buffer1, buffer2) ==
    IF buffer1 = NULL \/ buffer2 = NULL
    THEN \* throw new Error('Missing audio buffers for comparison'), caught
         [delivered |-> <<FallbackScore>>, caught |-> TRUE, escaped |-> FALSE,
          breakdown |-> <<>>]
    ELSE LET b == ScoreBreakdown(buffer1, buffer2)
         IN  [delivered |-> <<b.roundedScore>>, caught |-> FALSE, escaped |-> FALSE,
              breakdown |-> <<b>>]

\* compareAudio on every pair of slot contents, evaluated once
Outcomes ==
    [buffer1 \in Buffers \cup {NULL}, buffer2 \in Buffers \cup {NULL} |->
        compareAudio(buffer1, buffer2)]

\* calls of compareAudio followed in one behaviour
MaxCalls == 2

\* steps of the sweep of the curve over [0, 1]
RemapSteps == 100

\* the raw scores the curve is applied to: an even grid over [0, 1], and the
\* two thresholds with their neighbours on the grid 1/RawUnit
RawScores ==
    {(k * RawUnit) \div RemapSteps : k \in 0..RemapSteps}
        \cup {(4 * RawUnit) \div 10 + d : d \in -1..1}
        \cup {(7 * RawUnit) \div 10 + d : d \in -1..1}

\* lines 703-718 for one rawScore: the three branches' expressions, the one
\* the conditions choose, the clamp and the rounding
Remap(raw) ==
    [low |-> LowCurve(raw), medium |-> MediumCurve(raw), high |-> HighCurve(raw),
     curved |-> CurveAdjust(raw),
     adjustedScore |-> Clamp(CurveAdjust(raw)),
     roundedScore |-> MathRound(Clamp(CurveAdjust(raw)))]

VARIABLES
    player1OriginalBuffer,        \* this.player1OriginalBuffer
    player2ReverseForwardBuffer,  \* this.player2ReverseForwardBuffer
    completed,                    \* the calls of compareAudio so far, in order
    sweptRawScore,                \* the rawScore the curve is applied to
    remapped,                     \* <<>>, or <<what the curve made of it>>
    firstContour,                 \* first argument of calculatePitchContourMatch
    secondContour,                \* second argument of calculatePitchContourMatch
    pitchMatch,                   \* <<>>, or <<what calculatePitchContourMatch returned>>
    waveform,                     \* the audioData and sampleRate a descriptor is extracted from
    extracted,                    \* <<>>, or <<the descriptor an extractor returned>>
    inputBuffer,                  \* the argument of reverseAudioBuffer
    reversedBuffer,               \* <<>>, or <<what reverseAudioBuffer returned>>
    \* AudioManager
    player1ReversedBuffer,        \* this.player1ReversedBuffer
    player2AttemptBuffer,         \* this.player2AttemptBuffer
    isRecording,                  \* this.isRecording
    isPlaying,                    \* this.isPlaying
    recordingTime,                \* this.recordingTime, in additions of 0.1
    recordingTimer,               \* this.recordingTimer holds an interval
    mediaRecorder,                \* the player this.mediaRecorder is recording, or 0
    starting,                     \* per player, the calls of startRecording awaiting getUserMedia
    decoding,                     \* per player, the onstop handlers awaiting decodeAudioData
    intervals,                    \* how many setInterval timers have not been cleared
    playbacks,                    \* per step view, the sources whose onended is still to come
    \* app.js
    activeScreen,                 \* which of homeScreen, gameScreen has class "active"
    view,                         \* what gameContent.innerHTML was last set to
    currentStep,
    similarityScore,
    currentRound,
    currentPlayerIndex,
    roundScores,
    turnsCompleted,
    playerNames,                  \* let playerNames: two strings, each a sequence of characters
    totalRounds,                  \* let totalRounds, assigned once when app.js loads
    polling,                      \* the players whose checkRecordingStarted is still rescheduled
    evaluations                   \* the setTimeout(..., 1000) of evaluatePerformance not yet run

\* the arguments and results of the descriptor functions called on their own
contourVars == <<firstContour, secondContour, pitchMatch, waveform, extracted>>

reverseVars == <<inputBuffer, reversedBuffer>>

\* the fields of AudioManager besides the two slots compareAudio reads
audioVars == <<player1ReversedBuffer, player2AttemptBuffer, isRecording, isPlaying,
               recordingTime, recordingTimer, mediaRecorder, starting, decoding,
               intervals, playbacks>>

appVars == <<activeScreen, view, currentStep, similarityScore, currentRound,
             currentPlayerIndex, roundScores, turnsCompleted, playerNames, totalRounds,
             polling,
             evaluations>>

vars == <<player1OriginalBuffer, player2ReverseForwardBuffer, completed,
          sweptRawScore, remapped, contourVars, reverseVars, audioVars, appVars>>

\* no descriptor is being extracted
ExtractIdle == waveform = NULL /\ extracted = <<>>

\* no contour is being matched
ContourIdle == firstContour = <<>> /\ secondContour = <<>> /\ pitchMatch = <<>> /\ ExtractIdle

\* no buffer is being reversed
ReverseIdle == inputBuffer = NULL /\ reversedBuffer = <<>>

(***************************************************************************)
(* The game: app.js driving one AudioManager.  A click runs its handler to *)
(* the end, together with the continuations that are only microtasks (the  *)
(* await of initAudioContext on a running context); the callbacks of       *)
(* getUserMedia, MediaRecorder.onstop, setInterval, setTimeout and         *)
(* onended are steps of their own, taken in any order.                     *)
(***************************************************************************)
\* GameStep
PLAYER_NAMES == 0
CATEGORY_SELECTION == 1
PROMPT_SELECTION == 2
PLAYER1_RECORDING == 3
REVERSE_PLAYBACK == 4
PLAYER2_RECORDING == 5
REVERSE_PLAYER2 == 6
EVALUATION == 7
RESULTS == 8

\* let totalRounds = 3, scaled down: a game is 2 * totalRounds turns.  One
\* round is a whole game of two turns; two rounds let a turn follow a turn
\* of the same player.
GameRounds == 1
TurnRounds == 2

\* this.maxRecordingDuration = 10.0, as the number of additions of 0.1 that
\* reach it, scaled down
maxRecordingDuration == 2

\* setInterval timers, running or about to be made, at one time
MaxIntervals == 1

\* callbacks the browser owes the page at one time
MaxPending == 2

\* what decodeAudioData can make of a recording: a swell and its mirror
Takes ==
    {[sampleRate |-> 2000, channels |-> <<Swell(2 * windowSize + 1)>>],
     [sampleRate |-> 2000, channels |-> <<Decay(2 * windowSize + 1)>>]}

\* gameContent as a render function leaves it: the step whose view it is
\* and the values the template branched on
PlainView(step) ==
    [step |-> step, isRecording |-> FALSE, isPlaying |-> FALSE,
     hasReversed |-> FALSE, isGameOver |-> FALSE, nameError |-> FALSE]

\* renderPlayer1Recording, renderPlayer2Recording
RecordingView(step, recording) == [PlainView(step) EXCEPT !.isRecording = recording]

\* renderReversePlayback, renderReversePlayer2
PlaybackView(step, playing, reversed) ==
    [PlainView(step) EXCEPT !.isPlaying = playing, !.hasReversed = reversed # NULL]

\* the template of renderResults
ResultsView(isGameOver) == [PlainView(RESULTS) EXCEPT !.isGameOver = isGameOver]

\* gameContent before the first render
NoView == PlainView(-1)

\* renderStep() for a step before RESULTS, given the fields of audioManager
\* the render functions read
renderStep(step, recording, playing, reversed1, reversed2) ==
    CASE step \in {PLAYER1_RECORDING, PLAYER2_RECORDING} -> RecordingView(step, recording)
      [] step = REVERSE_PLAYBACK -> PlaybackView(step, playing, reversed1)
      [] step = REVERSE_PLAYER2 -> PlaybackView(step, playing, reversed2)
      [] OTHER -> PlainView(step)

\* the state of a new AudioManager and of app.js once loaded, the two slots
\* compareAudio reads apart
GameLoaded(rounds) ==
    /\ totalRounds = rounds
    /\ playerNames = <<<<>>, <<>>>>
    /\ player1ReversedBuffer = NULL
    /\ player2AttemptBuffer = NULL
    /\ isRecording = FALSE
    /\ isPlaying = FALSE
    /\ recordingTime = 0
    /\ recordingTimer = FALSE
    /\ mediaRecorder = 0
    /\ starting = [player \in {1, 2} |-> 0]
    /\ decoding = [player \in {1, 2} |-> 0]
    /\ intervals = 0
    /\ playbacks = [step \in {REVERSE_PLAYBACK, REVERSE_PLAYER2} |-> 0]
    /\ activeScreen = "homeScreen"
    /\ view = NoView
    /\ currentStep = PLAYER_NAMES
    /\ similarityScore = 0
    /\ currentRound = 1
    /\ currentPlayerIndex = 0
    /\ roundScores = <<>>
    /\ turnsCompleted = 0
    /\ polling = {}
    /\ evaluations = 0

\* the same for a game of GameRounds rounds
GameIdle == GameLoaded(GameRounds)

(***************************************************************************)
(* SpecCompare: compareAudio on the slots' contents.                       *)
(***************************************************************************)
InitCompare ==
    /\ player1OriginalBuffer \in Buffers \cup {NULL}
    /\ player2ReverseForwardBuffer \in Buffers \cup {NULL}
    /\ completed = <<>>
    /\ sweptRawScore = 0
    /\ remapped = <<>>
    /\ ContourIdle
    /\ ReverseIdle
    /\ GameIdle

\* compareAudio with a memory: a call after the first answers with what the
\* first call delivered for its reference, whatever the candidate is now
CompareAudioRemembering ==
    /\ Len(completed) < MaxCalls
    /\ completed' = Append(completed,
                           [reference |-> player1OriginalBuffer,
                            candidate |-> player2ReverseForwardBuffer,
                            outcome |-> IF completed # <<>>
                                        THEN Outcomes[completed[1].reference,
                                                      completed[1].reference]
                                        ELSE Outcomes[player1OriginalBuffer,
                                                      player2ReverseForwardBuffer]])
    /\ UNCHANGED <<player1OriginalBuffer, player2ReverseForwardBuffer, sweptRawScore, remapped, contourVars, reverseVars, audioVars, appVars>>

\* audioManager.compareAudio(onComplete)
CompareAudio ==
    /\ Len(completed) < MaxCalls
    /\ completed' = Append(completed,
                           [reference |-> player1OriginalBuffer,
                            candidate |-> player2ReverseForwardBuffer,
                            outcome |-> Outcomes[player1OriginalBuffer,
                                                 player2ReverseForwardBuffer]])
    /\ UNCHANGED <<player1OriginalBuffer, player2ReverseForwardBuffer, sweptRawScore, remapped, contourVars, reverseVars, audioVars, appVars>>

\* a later turn stores the two recordings in the other roles
ExchangeRoles ==
    /\ Len(completed) < MaxCalls
    /\ player1OriginalBuffer' = player2ReverseForwardBuffer
    /\ player2ReverseForwardBuffer' = player1OriginalBuffer
    /\ UNCHANGED <<completed, sweptRawScore, remapped, contourVars, reverseVars, audioVars, appVars>>

NextCompare == CompareAudio \/ ExchangeRoles

SpecCompare == InitCompare /\ [][NextCompare]_vars

(***************************************************************************)
(* SpecRemap: the curve, the clamp and the rounding on each of RawScores.  *)
(***************************************************************************)
InitRemap ==
    /\ player1OriginalBuffer = NULL
    /\ player2ReverseForwardBuffer = NULL
    /\ completed = <<>>
    /\ sweptRawScore \in RawScores
    /\ remapped = <<>>
    /\ ContourIdle
    /\ ReverseIdle
    /\ GameIdle

\* lines 703-718 of compareAudio
ApplyCurve ==
    /\ remapped = <<>>
    /\ remapped' = <<Remap(sweptRawScore)>>
    /\ UNCHANGED <<player1OriginalBuffer, player2ReverseForwardBuffer, completed, sweptRawScore, contourVars, reverseVars, audioVars, appVars>>

NextRemap == ApplyCurve

SpecRemap == InitRemap /\ [][NextRemap]_vars

(***************************************************************************)
(* SpecContour: calculatePitchContourMatch on every pair of contours of up *)
(* to MaxContourLen frames over Pitches.                                   *)
(***************************************************************************)
MaxContourLen == 3

\* what extractPitchContour puts in a frame: 0 for unvoiced, or a pitch in
\* 1/HzUnit Hz (here 110 Hz, 200 Hz, 220 Hz)
Pitches == {0, 110 * HzUnit, 200 * HzUnit, 220 * HzUnit}

Contours == UNION {[1..n -> Pitches] : n \in 0..MaxContourLen}

InitContour ==
    /\ player1OriginalBuffer = NULL
    /\ player2ReverseForwardBuffer = NULL
    /\ completed = <<>>
    /\ sweptRawScore = 0
    /\ remapped = <<>>
    /\ firstContour \in Contours
    /\ secondContour \in Contours
    /\ pitchMatch = <<>>
    /\ ExtractIdle
    /\ ReverseIdle
    /\ GameIdle

\* const pitchMatch = this.calculatePitchContourMatch(pitchContour1, pitchContour2)
MatchContours ==
    /\ pitchMatch = <<>>
    /\ pitchMatch' = <<calculatePitchContourMatch(firstContour, secondContour)>>
    /\ UNCHANGED <<player1OriginalBuffer, player2ReverseForwardBuffer, completed,
                   sweptRawScore, remapped, firstContour, secondContour,
                   waveform, extracted, reverseVars, audioVars, appVars>>

NextContour == MatchContours

SpecContour == InitContour /\ [][NextContour]_vars

(***************************************************************************)
(* SpecReverse: reverseAudioBuffer on every buffer of one or two channels  *)
(* of 1..MaxReverseLen samples.                                            *)
(***************************************************************************)
MaxReverseLen == 3

ReverseInputs ==
    UNION {{[sampleRate |-> r, channels |-> c] :
                r \in SampleRates,
                c \in [1..n -> [1..length -> {-AmpUnit, 0, AmpUnit}]]} :
           n \in 1..2, length \in 1..MaxReverseLen}

InitReverse ==
    /\ player1OriginalBuffer = NULL
    /\ player2ReverseForwardBuffer = NULL
    /\ completed = <<>>
    /\ sweptRawScore = 0
    /\ remapped = <<>>
    /\ ContourIdle
    /\ inputBuffer \in ReverseInputs
    /\ reversedBuffer = <<>>
    /\ GameIdle

\* this.reverseAudioBuffer(inputBuffer): only reversedBuffer's channel data is written
ReverseAudioBuffer ==
    /\ reversedBuffer = <<>>
    /\ reversedBuffer' = <<reverseAudioBuffer(inputBuffer)>>
    /\ UNCHANGED <<player1OriginalBuffer, player2ReverseForwardBuffer, completed,
                   sweptRawScore, remapped, contourVars, inputBuffer, audioVars, appVars>>

NextReverse == ReverseAudioBuffer

SpecReverse == InitReverse /\ [][NextReverse]_vars

(***************************************************************************)
(* SpecGame: the clicks and callbacks of a game, in any order.             *)
(***************************************************************************)
InitGame ==
    /\ player1OriginalBuffer = NULL
    /\ player2ReverseForwardBuffer = NULL
    /\ completed = <<>>
    /\ sweptRawScore = 0
    /\ remapped = <<>>
    /\ ContourIdle
    /\ ReverseIdle
    /\ GameIdle

\* what no handler of the game writes
sweepVars == <<sweptRawScore, remapped, contourVars, reverseVars, totalRounds>>

\* a button of the view of `step` can be clicked
Clickable(step) == activeScreen = "gameScreen" /\ view.step = step

\* the callbacks the browser owes the page: of getUserMedia and of
\* decodeAudioData, onended, the evaluation timeout
Pending ==
    starting[1] + starting[2] + decoding[1] + decoding[2]
        + playbacks[REVERSE_PLAYBACK] + playbacks[REVERSE_PLAYER2]
        + evaluations

\* if (this.recordingTimer) { clearInterval(this.recordingTimer); this.recordingTimer = null; }
ClearRecordingTimer ==
    /\ intervals' = IF recordingTimer THEN intervals - 1 ELSE intervals
    /\ recordingTimer' = FALSE

\* audioManager.reset()
Reset ==
    /\ player1OriginalBuffer' = NULL
    /\ player1ReversedBuffer' = NULL
    /\ player2AttemptBuffer' = NULL
    /\ player2ReverseForwardBuffer' = NULL
    /\ isRecording' = FALSE
    /\ isPlaying' = FALSE
    /\ recordingTime' = 0
    /\ ClearRecordingTimer
    /\ UNCHANGED <<mediaRecorder, starting, decoding, playbacks>>

\* audioManager.stopRecording(): the recorder this.mediaRecorder holds, if
\* it is recording, becomes inactive for good and its onstop handler starts
StopRecording ==
    /\ ClearRecordingTimer
    /\ mediaRecorder' = 0
    /\ decoding' = IF mediaRecorder # 0
                   THEN [decoding EXCEPT ![mediaRecorder] = @ + 1]
                   ELSE decoding
    /\ UNCHANGED starting

\* renderResults() with similarityScore = score
RenderResults(score) ==
    /\ turnsCompleted' = turnsCompleted + 1
    /\ roundScores' = Append(roundScores,
                             [round |-> currentRound,
                              playerIndex |-> currentPlayerIndex,
                              score |-> score])
    /\ view' = ResultsView(turnsCompleted + 1 >= totalRounds * 2)

\* nextStep(), given the fields of audioManager renderStep() will read
NextStep(recording, playing, reversed1, reversed2) ==
    IF currentStep < RESULTS
    THEN /\ currentStep' = currentStep + 1
         /\ IF currentStep + 1 = RESULTS
            THEN RenderResults(similarityScore)
            ELSE /\ view' = renderStep(currentStep + 1, recording, playing,
                                       reversed1, reversed2)
                 /\ UNCHANGED <<turnsCompleted, roundScores>>
    ELSE UNCHANGED <<currentStep, view, turnsCompleted, roundScores>>

\* nextStep() from a click handler that leaves audioManager alone
ClickNextStep ==
    /\ NextStep(isRecording, isPlaying, player1ReversedBuffer, player2ReverseForwardBuffer)
    /\ UNCHANGED <<player1OriginalBuffer, player2ReverseForwardBuffer, completed,
                   sweepVars, audioVars, activeScreen, similarityScore, currentRound, playerNames,
                   currentPlayerIndex, polling, evaluations>>

\* startGame()
StartGame ==
    /\ activeScreen = "homeScreen"
    /\ activeScreen' = "gameScreen"
    /\ currentStep' = PLAYER_NAMES
    /\ similarityScore' = 0
    /\ currentRound' = 1
    /\ currentPlayerIndex' = 0
    /\ roundScores' = <<>>
    /\ turnsCompleted' = 0
    /\ playerNames' = <<<<>>, <<>>>>
    /\ Reset
    /\ view' = PlainView(PLAYER_NAMES)
    /\ UNCHANGED <<completed, sweepVars, polling, evaluations>>

\* exitGame()
ExitGame ==
    /\ activeScreen = "gameScreen"
    /\ activeScreen' = "homeScreen"
    /\ Reset
    /\ UNCHANGED <<completed, sweepVars, view, currentStep, similarityScore, currentRound, playerNames,
                   currentPlayerIndex, roundScores, turnsCompleted, polling, evaluations>>

RECURSIVE TrimStart(_)
\* a string without the blanks it starts with
TrimStart(value) ==
    IF value # <<>> /\ Head(value) = " " THEN TrimStart(Tail(value)) ELSE value

\* a string back to front
Mirrored(value) == [i \in 1..Len(value) |-> value[Len(value) + 1 - i]]

\* value.trim()
Trim(value) == Mirrored(TrimStart(Mirrored(TrimStart(value))))

\* what a name field can hold when the button is clicked: nothing, a blank,
\* a name, a name between blanks
NameInputs == {<<>>, <<" ">>, <<"a">>, <<" ", "a", " ">>}

\* submitPlayerNames() with player1Input.value = value1 and
\* player2Input.value = value2
SubmitPlayerNames(value1, value2) ==
    /\ Clickable(PLAYER_NAMES)
    /\ IF Trim(value1) = <<>> \/ Trim(value2) = <<>>
       THEN /\ view' = [view EXCEPT !.nameError = TRUE]
            /\ UNCHANGED <<currentStep, playerNames, turnsCompleted, roundScores>>
       ELSE /\ playerNames' = <<Trim(value1), Trim(value2)>>
            /\ NextStep(isRecording, isPlaying, player1ReversedBuffer,
                        player2ReverseForwardBuffer)
    /\ UNCHANGED <<player1OriginalBuffer, player2ReverseForwardBuffer, completed,
                   sweepVars, audioVars, activeScreen, similarityScore, currentRound,
                   currentPlayerIndex, polling, evaluations>>

\* selectCategory(category)
SelectCategory == Clickable(CATEGORY_SELECTION) /\ ClickNextStep

\* "Ready to Record": nextStep()
ReadyToRecord == Clickable(PROMPT_SELECTION) /\ ClickNextStep

\* the step whose view records `player`
RecordingStep(player) == IF player = 1 THEN PLAYER1_RECORDING ELSE PLAYER2_RECORDING

\* startPlayer1Recording(), startPlayer2Recording(), up to the await of
\* getUserMedia
StartRecordingUnder(player, cap) ==
    /\ Clickable(RecordingStep(player))
    /\ ~view.isRecording
    /\ ~isRecording
    /\ Pending < MaxPending
    /\ intervals + starting[1] + starting[2] < cap
    /\ starting' = [starting EXCEPT ![player] = @ + 1]
    /\ polling' = polling \cup {player}
    /\ UNCHANGED <<player1OriginalBuffer, player2ReverseForwardBuffer, completed, sweepVars,
                   player1ReversedBuffer, player2AttemptBuffer, isRecording, isPlaying,
                   recordingTime, recordingTimer, mediaRecorder, decoding, intervals, playbacks,
                   activeScreen, view, currentStep, similarityScore, currentRound, playerNames,
                   currentPlayerIndex, roundScores, turnsCompleted, evaluations>>

\* the same with no more than MaxIntervals timers and requests at a time
StartPlayerRecording(player) == StartRecordingUnder(player, MaxIntervals)

\* startRecording(player, onComplete) from the stream on, lines 109-176: a
\* recorder or an interval the fields held before is no longer reachable
GetUserMediaResolved(player) ==
    /\ starting[player] > 0
    /\ starting' = [starting EXCEPT ![player] = @ - 1]
    /\ mediaRecorder' = player
    /\ isRecording' = TRUE
    /\ recordingTime' = 0
    /\ recordingTimer' = TRUE
    /\ intervals' = intervals + 1
    /\ UNCHANGED <<player1OriginalBuffer, player2ReverseForwardBuffer, completed, sweepVars,
                   player1ReversedBuffer, player2AttemptBuffer, isPlaying, decoding,
                   playbacks, appVars>>

\* GetUserMediaRejected with a callback that takes null for a recording
GetUserMediaRejectedAdvancing(player) ==
    /\ starting[player] > 0
    /\ starting' = [starting EXCEPT ![player] = @ - 1]
    /\ NextStep(isRecording, isPlaying, player1ReversedBuffer, player2ReverseForwardBuffer)
    /\ UNCHANGED <<player1OriginalBuffer, player2ReverseForwardBuffer, completed, sweepVars,
                   player1ReversedBuffer, player2AttemptBuffer, isRecording, isPlaying,
                   recordingTime, recordingTimer, mediaRecorder, decoding, intervals, playbacks,
                   activeScreen, similarityScore, currentRound, playerNames,
                   currentPlayerIndex, polling, evaluations>>

\* getUserMedia rejects: the catch block, and the callback's else branch
GetUserMediaRejected(player) ==
    /\ starting[player] > 0
    /\ starting' = [starting EXCEPT ![player] = @ - 1]
    /\ view' = RecordingView(RecordingStep(player), isRecording)
    /\ UNCHANGED <<player1OriginalBuffer, player2ReverseForwardBuffer, completed, sweepVars,
                   player1ReversedBuffer, player2AttemptBuffer, isRecording, isPlaying,
                   recordingTime, recordingTimer, mediaRecorder, decoding, intervals, playbacks,
                   activeScreen, currentStep, similarityScore, currentRound, playerNames,
                   currentPlayerIndex, roundScores, turnsCompleted, polling, evaluations>>

\* checkRecordingStarted finds isRecording set and stops rescheduling itself
CheckRecordingStarted(player) ==
    /\ player \in polling
    /\ isRecording
    /\ polling' = polling \ {player}
    /\ view' = RecordingView(RecordingStep(player), isRecording)
    /\ UNCHANGED <<player1OriginalBuffer, player2ReverseForwardBuffer, completed, sweepVars,
                   audioVars, activeScreen, currentStep, similarityScore, currentRound, playerNames,
                   currentPlayerIndex, roundScores, turnsCompleted, evaluations>>

\* the callback of setInterval, lines 165-176
RecordingTimerTick ==
    /\ intervals > 0
    /\ recordingTime <= maxRecordingDuration
    /\ recordingTime' = recordingTime + 1
    /\ IF recordingTime + 1 >= maxRecordingDuration
       THEN StopRecording
       ELSE UNCHANGED <<intervals, recordingTimer, mediaRecorder, starting, decoding>>
    /\ UNCHANGED <<player1OriginalBuffer, player2ReverseForwardBuffer, completed, sweepVars,
                   player1ReversedBuffer, player2AttemptBuffer, isRecording, isPlaying,
                   playbacks, appVars>>

\* stopPlayer1Recording(), stopPlayer2Recording()
StopPlayerRecording ==
    /\ \E player \in {1, 2} : Clickable(RecordingStep(player))
    /\ view.isRecording
    /\ StopRecording
    /\ UNCHANGED <<player1OriginalBuffer, player2ReverseForwardBuffer, completed, sweepVars,
                   player1ReversedBuffer, player2AttemptBuffer, isRecording, isPlaying,
                   recordingTime, playbacks, appVars>>

\* mediaRecorder.onstop once decodeAudioData has resolved with `audioBuffer`,
\* and the callback of startPlayerNRecording
OnStop(player, audioBuffer) ==
    /\ decoding[player] > 0
    /\ decoding' = [decoding EXCEPT ![player] = @ - 1]
    /\ IF player = 1
       THEN /\ player1OriginalBuffer' = audioBuffer
            /\ UNCHANGED player2AttemptBuffer
       ELSE /\ player2AttemptBuffer' = audioBuffer
            /\ UNCHANGED player1OriginalBuffer
    /\ isRecording' = FALSE
    /\ recordingTime' = 0
    /\ NextStep(FALSE, isPlaying, player1ReversedBuffer, player2ReverseForwardBuffer)
    /\ UNCHANGED <<player2ReverseForwardBuffer, completed, sweepVars,
                   player1ReversedBuffer, isPlaying, recordingTimer, mediaRecorder,
                   starting, intervals, playbacks, activeScreen, similarityScore, currentRound, playerNames,
                   currentPlayerIndex, polling, evaluations>>

\* playAudioBuffer(buffer, callback) followed by the render of `step`: the
\* render reads isPlaying before playAudioBuffer sets it
PlayThenRender(step, reversed) ==
    /\ view' = PlaybackView(step, isPlaying, reversed)
    /\ isPlaying' = TRUE
    /\ playbacks' = [playbacks EXCEPT ![step] = @ + 1]

\* playPlayer1Reversed() over a reversePlayer1 that does not test its source
PlayPlayer1ReversedUnchecked ==
    /\ Clickable(REVERSE_PLAYBACK)
    /\ ~view.isPlaying
    /\ Pending < MaxPending
    /\ IF player1ReversedBuffer # NULL
       THEN /\ PlayThenRender(REVERSE_PLAYBACK, player1ReversedBuffer)
            /\ UNCHANGED player1ReversedBuffer
       ELSE /\ player1ReversedBuffer' = reverseAudioBuffer(player1OriginalBuffer)
            /\ PlayThenRender(REVERSE_PLAYBACK, reverseAudioBuffer(player1OriginalBuffer))
    /\ UNCHANGED <<player1OriginalBuffer, player2ReverseForwardBuffer, completed, sweepVars,
                   player2AttemptBuffer, isRecording, recordingTime, recordingTimer,
                   mediaRecorder, starting, decoding, intervals, activeScreen, currentStep,
                   similarityScore, currentRound, playerNames, currentPlayerIndex, roundScores,
                   turnsCompleted, polling, evaluations>>

\* playPlayer1Reversed()
PlayPlayer1Reversed ==
    /\ Clickable(REVERSE_PLAYBACK)
    /\ ~view.isPlaying
    /\ Pending < MaxPending
    /\ IF player1ReversedBuffer # NULL
       THEN /\ PlayThenRender(REVERSE_PLAYBACK, player1ReversedBuffer)
            /\ UNCHANGED player1ReversedBuffer
       ELSE IF player1OriginalBuffer # NULL
       THEN /\ player1ReversedBuffer' = reverseAudioBuffer(player1OriginalBuffer)
            /\ PlayThenRender(REVERSE_PLAYBACK, reverseAudioBuffer(player1OriginalBuffer))
       ELSE /\ view' = PlaybackView(REVERSE_PLAYBACK, isPlaying, NULL)
            /\ UNCHANGED <<player1ReversedBuffer, isPlaying, playbacks>>
    /\ UNCHANGED <<player1OriginalBuffer, player2ReverseForwardBuffer, completed, sweepVars,
                   player2AttemptBuffer, isRecording, recordingTime, recordingTimer,
                   mediaRecorder, starting, decoding, intervals, activeScreen, currentStep,
                   similarityScore, currentRound, playerNames, currentPlayerIndex, roundScores,
                   turnsCompleted, polling, evaluations>>

\* playPlayer2Reversed()
PlayPlayer2Reversed ==
    /\ Clickable(REVERSE_PLAYER2)
    /\ ~view.isPlaying
    /\ Pending < MaxPending
    /\ IF player2ReverseForwardBuffer # NULL
       THEN /\ PlayThenRender(REVERSE_PLAYER2, player2ReverseForwardBuffer)
            /\ UNCHANGED player2ReverseForwardBuffer
       ELSE IF player2AttemptBuffer # NULL
       THEN /\ player2ReverseForwardBuffer' = reverseAudioBuffer(player2AttemptBuffer)
            /\ PlayThenRender(REVERSE_PLAYER2, reverseAudioBuffer(player2AttemptBuffer))
       ELSE /\ view' = PlaybackView(REVERSE_PLAYER2, isPlaying, NULL)
            /\ UNCHANGED <<player2ReverseForwardBuffer, isPlaying, playbacks>>
    /\ UNCHANGED <<player1OriginalBuffer, completed, sweepVars, player1ReversedBuffer,
                   player2AttemptBuffer, isRecording, recordingTime, recordingTimer,
                   mediaRecorder, starting, decoding, intervals, activeScreen, currentStep,
                   similarityScore, currentRound, playerNames, currentPlayerIndex, roundScores,
                   turnsCompleted, polling, evaluations>>

\* source.onended of a playback started from the view of `step`
PlaybackEnded(step) ==
    /\ playbacks[step] > 0
    /\ playbacks' = [playbacks EXCEPT ![step] = @ - 1]
    /\ isPlaying' = FALSE
    /\ view' = PlaybackView(step, FALSE,
                            IF step = REVERSE_PLAYBACK THEN player1ReversedBuffer
                            ELSE player2ReverseForwardBuffer)
    /\ UNCHANGED <<player1OriginalBuffer, player2ReverseForwardBuffer, completed, sweepVars,
                   player1ReversedBuffer, player2AttemptBuffer, isRecording,
                   recordingTime, recordingTimer, mediaRecorder, starting, decoding,
                   intervals, activeScreen, currentStep, similarityScore, currentRound, playerNames,
                   currentPlayerIndex, roundScores, turnsCompleted, polling, evaluations>>

\* "Player 2 Ready": nextStep()
PlayerTwoReady ==
    /\ Clickable(REVERSE_PLAYBACK)
    /\ view.hasReversed
    /\ ClickNextStep

\* evaluatePerformance(), up to setTimeout
EvaluatePerformance ==
    /\ Clickable(REVERSE_PLAYER2)
    /\ view.hasReversed
    /\ Pending < MaxPending
    /\ turnsCompleted + evaluations < 2 * totalRounds
    /\ currentStep' = EVALUATION
    /\ view' = PlainView(EVALUATION)
    /\ evaluations' = evaluations + 1
    /\ UNCHANGED <<player1OriginalBuffer, player2ReverseForwardBuffer, completed, sweepVars,
                   audioVars, activeScreen, similarityScore, currentRound, playerNames,
                   currentPlayerIndex, roundScores, turnsCompleted, polling>>

\* compareAudio keeping the buffers for itself
CompareAudioTakingBuffers ==
    /\ player1OriginalBuffer' = NULL
    /\ player2ReverseForwardBuffer' = NULL
    /\ UNCHANGED audioVars

\* what compareAudio assigns of the AudioManager: nothing
CompareAudioAssigns ==
    UNCHANGED <<player1OriginalBuffer, player2ReverseForwardBuffer, audioVars>>

\* the same callback were compareAudio to let the missing-buffer error go
\* without calling onComplete
EvaluationTimerWithoutFallback ==
    /\ evaluations > 0
    /\ evaluations' = evaluations - 1
    /\ IF player1OriginalBuffer = NULL \/ player2ReverseForwardBuffer = NULL
       THEN UNCHANGED <<similarityScore, currentStep, view, turnsCompleted, roundScores>>
       ELSE /\ similarityScore' =
                   Outcomes[player1OriginalBuffer, player2ReverseForwardBuffer].delivered[1]
            /\ RenderResults(similarityScore')
            /\ currentStep' = RESULTS
    /\ CompareAudioAssigns
    /\ UNCHANGED <<completed, sweepVars, activeScreen, currentRound, playerNames, currentPlayerIndex,
                   polling>>

\* the callback of setTimeout in evaluatePerformance: compareAudio and its
\* callback
EvaluationTimer ==
    /\ evaluations > 0
    /\ evaluations' = evaluations - 1
    /\ similarityScore' =
           Outcomes[player1OriginalBuffer, player2ReverseForwardBuffer].delivered[1]
    /\ RenderResults(similarityScore')
    /\ CompareAudioAssigns
    /\ currentStep' = RESULTS
    /\ UNCHANGED <<completed, sweepVars, activeScreen, currentRound, playerNames, currentPlayerIndex,
                   polling>>

\* nextTurn()
NextTurn ==
    /\ Clickable(RESULTS)
    /\ ~view.isGameOver
    /\ currentRound <= totalRounds
    /\ currentPlayerIndex' = (currentPlayerIndex + 1) % 2
    /\ currentRound' = IF currentPlayerIndex' = 0 THEN currentRound + 1 ELSE currentRound
    /\ IF currentRound' > totalRounds
       THEN UNCHANGED <<player1OriginalBuffer, player2ReverseForwardBuffer, audioVars,
                        currentStep, similarityScore, view>>
       ELSE /\ currentStep' = PROMPT_SELECTION
            /\ similarityScore' = 0
            /\ Reset
            /\ view' = PlainView(PROMPT_SELECTION)
    /\ UNCHANGED <<completed, sweepVars, activeScreen, roundScores, turnsCompleted,
                   playerNames, polling, evaluations>>

\* playAgain()
PlayAgain ==
    /\ Clickable(RESULTS)
    /\ view.isGameOver
    /\ currentStep' = PLAYER_NAMES
    /\ similarityScore' = 0
    /\ currentRound' = 1
    /\ currentPlayerIndex' = 0
    /\ roundScores' = <<>>
    /\ turnsCompleted' = 0
    /\ playerNames' = <<<<>>, <<>>>>
    /\ Reset
    /\ view' = PlainView(PLAYER_NAMES)
    /\ UNCHANGED <<completed, sweepVars, activeScreen, polling, evaluations>>

\* the callbacks the browser owes the page
Callback ==
    \/ \E player \in {1, 2} : GetUserMediaResolved(player)
    \/ \E player \in {1, 2} : GetUserMediaRejected(player)
    \/ \E player \in {1, 2} : CheckRecordingStarted(player)
    \/ RecordingTimerTick
    \/ \E player \in {1, 2}, audioBuffer \in Takes : OnStop(player, audioBuffer)
    \/ \E step \in {REVERSE_PLAYBACK, REVERSE_PLAYER2} : PlaybackEnded(step)
    \/ EvaluationTimer

\* the buttons
Click ==
    \/ StartGame
    \/ ExitGame
    \/ \E value1, value2 \in NameInputs : SubmitPlayerNames(value1, value2)
    \/ SelectCategory
    \/ ReadyToRecord
    \/ \E player \in {1, 2} : StartPlayerRecording(player)
    \/ StopPlayerRecording
    \/ PlayPlayer1Reversed
    \/ PlayerTwoReady
    \/ PlayPlayer2Reversed
    \/ EvaluatePerformance
    \/ NextTurn
    \/ PlayAgain

NextGame == Click \/ Callback

SpecGame == InitGame /\ [][NextGame]_vars

\* The browser runs every callback it owes: a timer that is due fires, a
\* promise that is pending settles, a playback that was started ends.
\* Nothing obliges the players to click.
CallbacksRun ==
    /\ WF_vars(EvaluationTimer)
    /\ WF_vars(RecordingTimerTick)
    /\ WF_vars(\E player \in {1, 2} : GetUserMediaResolved(player)
                                           \/ GetUserMediaRejected(player))
    /\ WF_vars(\E player \in {1, 2} : CheckRecordingStarted(player))
    /\ WF_vars(\E player \in {1, 2}, audioBuffer \in Takes : OnStop(player, audioBuffer))
    /\ WF_vars(\E step \in {REVERSE_PLAYBACK, REVERSE_PLAYER2} : PlaybackEnded(step))

SpecGameFair == SpecGame /\ CallbacksRun

(***************************************************************************)
(* compareAudio on pure tones: a reference, and a candidate that is the    *)
(* same tone, possibly quieter and shorter.                                *)
(***************************************************************************)
ToneBuffer(sampleRate, length, amplitude) ==
    [sampleRate |-> sampleRate, channels |-> <<PureTone(length, amplitude)>>]

InitTone ==
    /\ \E sampleRate \in SampleRates, n \in ToneLengths, a \in ToneAmplitudes,
          t \in ToneTenths, d \in {1, 2} :
           /\ player1OriginalBuffer = ToneBuffer(sampleRate, n, a)
           /\ player2ReverseForwardBuffer = ToneBuffer(sampleRate, (n * t) \div 10, a \div d)
    /\ completed = <<>>
    /\ sweptRawScore = 0
    /\ remapped = <<>>
    /\ ContourIdle
    /\ ReverseIdle
    /\ GameIdle

\* audioManager.compareAudio(onComplete), once
CompareTones ==
    /\ completed = <<>>
    /\ completed' = <<[reference |-> player1OriginalBuffer,
                       candidate |-> player2ReverseForwardBuffer,
                       outcome |-> compareAudio(player1OriginalBuffer,
                                                player2ReverseForwardBuffer)]>>
    /\ UNCHANGED <<player1OriginalBuffer, player2ReverseForwardBuffer, sweptRawScore,
                   remapped, contourVars, reverseVars, audioVars, appVars>>

NextTone == CompareTones

SpecTone == InitTone /\ [][NextTone]_vars

(***************************************************************************)
(* The calls a behaviour of SpecCompare has made.                          *)
(***************************************************************************)
Calls == {completed[i] : i \in DOMAIN completed}

BothPresent(call) == call.reference # NULL /\ call.candidate # NULL

\* the constants of the try block of a call with both buffers present
Locals(call) == call.outcome.breakdown[1]

\* C1: for every pair of present buffers, whatever their lengths and
\* samples, compareAudio hands onComplete one value, an integer in 0..100.
C1_ScoreIsIntegerInRange ==
    \A call \in Calls :
        BothPresent(call) =>
            /\ Len(call.outcome.delivered) = 1
            /\ call.outcome.delivered[1] \in 0..100

\* C2: when player1OriginalBuffer or player2ReverseForwardBuffer is absent,
\* onComplete receives exactly 30, once, and no exception leaves compareAudio.
C2_MissingBufferScores30 ==
    \A call \in Calls :
        ~BothPresent(call) =>
            /\ call.outcome.delivered = <<30>>
            /\ ~call.outcome.escaped

\* a call was made with the reference absent and a candidate present
C2_CalledWithMissingReference ==
    \E call \in Calls : call.reference = NULL /\ call.candidate # NULL

\* the inputs the error-handling rule calls degenerate
ZeroLength(call) == Locals(call).minLength = 0

ZeroVarianceEnvelope(call) ==
    \/ \A i, j \in DOMAIN Locals(call).envelope1 :
            Locals(call).envelope1[i] = Locals(call).envelope1[j]
    \/ \A i, j \in DOMAIN Locals(call).envelope2 :
            Locals(call).envelope2[i] = Locals(call).envelope2[j]

AllUnvoiced(call) ==
    /\ \A i \in DOMAIN Locals(call).pitchContour1 : Locals(call).pitchContour1[i] = 0
    /\ \A i \in DOMAIN Locals(call).pitchContour2 : Locals(call).pitchContour2[i] = 0

ZeroEnergy(call) ==
    \/ \A i \in DOMAIN call.reference.channels[1] : call.reference.channels[1][i] = 0
    \/ \A i \in DOMAIN call.candidate.channels[1] : call.candidate.channels[1][i] = 0

\* C3: on degenerate inputs (a zero-length buffer, a zero-variance envelope,
\* an all-unvoiced pitch contour, zero total energy) each of the six terms
\* is a defined finite value (pitch 0.5 when nothing is voiced, envelope
\* correlation 0 when an envelope has no variance) and the score is a number.
C3_DegenerateInputsGiveFiniteTerms ==
    \A call \in Calls :
        BothPresent(call) =>
            /\ (ZeroLength(call) \/ ZeroVarianceEnvelope(call)
                    \/ AllUnvoiced(call) \/ ZeroEnergy(call)) =>
                    /\ \A k \in DOMAIN Locals(call).terms : ~IsNaN(Locals(call).terms[k])
                    /\ ~IsNaN(call.outcome.delivered[1])
            /\ AllUnvoiced(call) => Locals(call).terms.pitchMatch = TermUnit \div 2
            /\ ZeroVarianceEnvelope(call) => Locals(call).envelopeCorrelation = 0

\* C4: the score with A as reference and B as candidate equals the score
\* with B as reference and A as candidate, for any pair of buffers,
\* including pairs whose sample rates differ.
C4_ScoreIsOrderSymmetric ==
    \A call, other \in Calls :
        (/\ BothPresent(call)
         /\ other.reference = call.candidate
         /\ other.candidate = call.reference) =>
            other.outcome.delivered = call.outcome.delivered

\* the two slots hold the same waveform at the same rate
SameWaveform(call) == BothPresent(call) /\ call.reference = call.candidate

NonEmpty(buffer) == BufferLength(buffer) > 0

\* C5 as stated: for bit-identical reference and candidate waveforms (of at
\* least one sample) the raw weighted score is 1.0 and the reported score is
\* 100, for every such waveform: silent, of constant envelope or shorter
\* than one window included.
C5_IdenticalAlwaysScores100 ==
    \A call \in Calls :
        SameWaveform(call) /\ NonEmpty(call.reference) =>
            /\ Locals(call).rawScore = RawUnit
            /\ call.outcome.delivered = <<100>>

\* the waveform has an envelope that varies, a voiced frame, and an rms of
\* at least 0.001
Expressive(call) ==
    /\ \E i, j \in DOMAIN Locals(call).envelope1 :
            Locals(call).envelope1[i] # Locals(call).envelope1[j]
    /\ \E i \in DOMAIN Locals(call).pitchContour1 : Locals(call).pitchContour1[i] > 0
    /\ Locals(call).rms1 >= AmpUnit \div 1000

\* C5: for bit-identical reference and candidate waveforms whose envelope
\* varies, that have a voiced frame and an rms of at least 0.001, the raw
\* weighted score is 1.0 (on the grid 1/RawUnit) and the reported score is 100.
C5_IdenticalExpressiveScores100 ==
    \A call \in Calls :
        SameWaveform(call) /\ Expressive(call) =>
            /\ Locals(call).rawScore = RawUnit
            /\ call.outcome.delivered = <<100>>

\* an expressive waveform was compared with itself
C5_ComparedExpressiveWithItself ==
    \E call \in Calls : SameWaveform(call) /\ Expressive(call)

\* C6 as stated: for buffers of at least one sample, the duration term is
\* 1.0 if and only if the sample counts are equal and the sample rates are
\* equal.
C6_DurationOneIffSameCountAndRate ==
    \A call \in Calls :
        BothPresent(call) /\ NonEmpty(call.reference) /\ NonEmpty(call.candidate) =>
            (Locals(call).terms.durationMatch = TermUnit
                <=> /\ BufferLength(call.reference) = BufferLength(call.candidate)
                    /\ call.reference.sampleRate = call.candidate.sampleRate)

\* length / sampleRate is the same for the two buffers and is not 0
SameNonZeroDuration(call) ==
    /\ BufferLength(call.reference) * call.candidate.sampleRate
           = BufferLength(call.candidate) * call.reference.sampleRate
    /\ NonEmpty(call.reference)

\* C6: the duration term is 1.0 if and only if the two buffers have the same
\* duration (sample count / sample rate) and that duration is not 0.
C6_DurationOneIffSameDuration ==
    \A call \in Calls :
        BothPresent(call) =>
            (Locals(call).terms.durationMatch = TermUnit <=> SameNonZeroDuration(call))

\* two buffers of different sample counts and rates had a duration term of 1.0
C6_SameDurationDifferentCounts ==
    \E call \in Calls :
        /\ BothPresent(call)
        /\ BufferLength(call.reference) # BufferLength(call.candidate)
        /\ call.reference.sampleRate # call.candidate.sampleRate
        /\ Locals(call).terms.durationMatch = TermUnit

\* the candidate has samples, all of them 0, and the reference has a sample
\* that is not 0
SilentCandidate(call) ==
    /\ BothPresent(call)
    /\ NonEmpty(call.candidate)
    /\ \A i \in DOMAIN call.candidate.channels[1] : call.candidate.channels[1][i] = 0
    /\ \E i \in DOMAIN call.reference.channels[1] : call.reference.channels[1][i] # 0

\* C7 as stated: when the candidate is all zeros and the reference has
\* nonzero energy, the energy term is 0 and the reported score is below 20.
C7_SilentCandidateScoresBelow20 ==
    \A call \in Calls :
        SilentCandidate(call) =>
            /\ Locals(call).terms.energyMatch = 0
            /\ call.outcome.delivered[1] < 20

\* C7: when the candidate is all zeros and the reference has nonzero energy,
\* the energy term is 0, the pitch term is at most 0.5, the envelope term is
\* 0.5, and the reported score is at most 50.
C7_SilentCandidateScoresAtMost50 ==
    \A call \in Calls :
        SilentCandidate(call) =>
            /\ Locals(call).terms.energyMatch = 0
            /\ Locals(call).terms.pitchMatch <= TermUnit \div 2
            /\ Locals(call).terms.envelopeMatch = TermUnit \div 2
            /\ call.outcome.delivered[1] \in 0..50

\* a silent candidate was scored 20 or more against a reference with energy
C7_SilentCandidateScored20OrMore ==
    \E call \in Calls : SilentCandidate(call) /\ call.outcome.delivered[1] >= 20

\* C8: the curve is continuous at both thresholds: at rawScore = 0.4 the low
\* and the middle branch both give 20, and at rawScore = 0.7 the middle and
\* the high branch both give 50.
C8_BranchesMeetAtThresholds ==
    \A r \in {remapped[i] : i \in DOMAIN remapped} :
        /\ 10 * sweptRawScore = 4 * RawUnit =>
                r.low = 20 * AdjUnit /\ r.medium = 20 * AdjUnit
        /\ 10 * sweptRawScore = 7 * RawUnit =>
                r.medium = 50 * AdjUnit /\ r.high = 50 * AdjUnit

\* the curve was applied at the threshold 0.7
C8_CurveAppliedAtThreshold ==
    remapped # <<>> /\ 10 * sweptRawScore = 7 * RawUnit

\* what C9 says of the two lower bands and of the ends of the range
LowerBandsAndEnds(r) ==
    /\ (sweptRawScore >= 0 /\ 10 * sweptRawScore <= 4 * RawUnit) =>
            r.curved >= 0 /\ r.curved <= 20 * AdjUnit
    /\ (10 * sweptRawScore > 4 * RawUnit /\ 10 * sweptRawScore <= 7 * RawUnit) =>
            r.curved > 20 * AdjUnit /\ r.curved <= 50 * AdjUnit
    /\ sweptRawScore = RawUnit => r.roundedScore = 100
    /\ sweptRawScore = 0 => r.roundedScore = 0

C10_TermsAndRawScoreInUnitInterval ==
    /\ Weights.mfccSimilarity + Weights.pitchMatch + Weights.envelopeMatch
         + Weights.spectralMatch + Weights.energyMatch + Weights.durationMatch = 100
    /\ \A call \in Calls :
            BothPresent(call) =>
                /\ \A k \in DOMAIN Locals(call).terms :
                        Locals(call).terms[k] \in 0..TermUnit
                /\ Locals(call).rawScore \in 0..RawUnit

(***************************************************************************)
(* The reference rule of the pitch-contour match, pair by pair.            *)
(***************************************************************************)
\* the frames of the k-th aligned pair
PairOf(k) ==
    LET minLen == Min2(Len(firstContour), Len(secondContour))
    IN  <<At(firstContour, (k * Len(firstContour)) \div minLen),
          At(secondContour, (k * Len(secondContour)) \div minLen)>>

\* the aligned pairs that are not unvoiced on both sides
CountedPairs ==
    IF Len(firstContour) = 0 \/ Len(secondContour) = 0 THEN {}
    ELSE {k \in 0..(Min2(Len(firstContour), Len(secondContour)) - 1) : PairOf(k) # <<0, 0>>}

\* 1 when exactly one frame is unvoiced, else min(1, |p1 - p2| / max(p1, p2))
Contribution(k) ==
    LET p1 == PairOf(k)[1]
        p2 == PairOf(k)[2]
    IN  IF p1 = 0 \/ p2 = 0 THEN TermUnit
        ELSE Min2(TermUnit, (Abs(p1 - p2) * TermUnit) \div Max2(p1, p2))

RECURSIVE SumOfContributions(_)
SumOfContributions(pairs) ==
    IF pairs = {} THEN 0
    ELSE LET k == CHOOSE x \in pairs : TRUE
         IN  Contribution(k) + SumOfContributions(pairs \ {k})

ReferencePitchMatch ==
    IF CountedPairs = {} THEN TermUnit \div 2
    ELSE TermUnit - (SumOfContributions(CountedPairs) \div Cardinality(CountedPairs))

\* C11: for every pair of contours calculatePitchContourMatch returns what
\* the reference rule gives: pairs unvoiced on both sides are skipped, a
\* pair unvoiced on one side contributes 1, any other pair contributes
\* min(1, |p1 - p2| / max(p1, p2)); the result is 1 minus the mean
\* contribution, and 0.5 when no pair is counted or a contour is empty.
C11_PitchMatchFollowsReferenceRule ==
    pitchMatch # <<>> => pitchMatch[1] = ReferencePitchMatch

\* a match over a skipped pair, a half-voiced pair and a voiced pair
C11_MatchedMixedContours ==
    /\ pitchMatch # <<>>
    /\ Len(firstContour) = 3
    /\ Len(secondContour) = 3
    /\ \E k \in 0..2 : PairOf(k) = <<0, 0>>
    /\ \E k \in 0..2 : PairOf(k)[1] = 0 /\ PairOf(k)[2] # 0
    /\ \E k \in 0..2 : PairOf(k)[1] # 0 /\ PairOf(k)[2] # 0 /\ PairOf(k)[1] # PairOf(k)[2]

\* C12: for non-empty sequences of lengths len1 and len2 the matching
\* compares exactly minFrames = min(len1, len2) pairs, and on each side the
\* index floor(k * ownLength / minFrames) of pair k lies in 0..ownLength-1,
\* does not decrease with k, and is k itself on the shorter side.
C12_AlignedIndexesInRangeAndMonotone ==
    (Len(firstContour) > 0 /\ Len(secondContour) > 0) =>
        LET minFrames == Min2(Len(firstContour), Len(secondContour))
        IN  \A length \in {Len(firstContour), Len(secondContour)} :
                /\ \A k \in 0..(minFrames - 1) :
                        /\ AlignedIndex(k, length, minFrames) \in 0..(length - 1)
                        /\ length = minFrames => AlignedIndex(k, length, minFrames) = k
                /\ \A k \in 1..(minFrames - 1) :
                        AlignedIndex(k - 1, length, minFrames)
                            <= AlignedIndex(k, length, minFrames)

\* contours of lengths 3 and 2 were matched
C12_MatchedUnequalLengths ==
    /\ pitchMatch # <<>>
    /\ Len(firstContour) = 3
    /\ Len(secondContour) = 2

\* C15: reverseAudioBuffer returns a new buffer with the channel count,
\* length and sample rate of its input, in which output[i] is
\* input[length - 1 - i] for every channel and every i, and it leaves the
\* input as it was.
C15_ReversedIsSampleWiseMirror ==
    [][reversedBuffer' # reversedBuffer =>
          LET output == reversedBuffer'[1]
              length == BufferLength(inputBuffer)
          IN  /\ Len(output.channels) = Len(inputBuffer.channels)
              /\ output.sampleRate = inputBuffer.sampleRate
              /\ \A channel \in 0..(Len(inputBuffer.channels) - 1) :
                      /\ Len(GetChannelData(output, channel)) = length
                      /\ \A i \in 0..(length - 1) :
                              At(GetChannelData(output, channel), i)
                                  = At(GetChannelData(inputBuffer, channel), length - 1 - i)
              /\ inputBuffer' = inputBuffer]_vars

\* a two-channel buffer that is not its own mirror was reversed
C15_ReversedTwoChannels ==
    /\ reversedBuffer # <<>>
    /\ Len(inputBuffer.channels) = 2
    /\ BufferLength(inputBuffer) = 3
    /\ reversedBuffer[1].channels[2] # inputBuffer.channels[2]

\* C13: a call of compareAudio, which the game makes in the step of the
\* evaluation timer, leaves the four buffer slots with their sample data and
\* the flags isRecording, isPlaying and recordingTime as they were, whether
\* it scored the two buffers or fell back for want of one.
C13_CompareAudioLeavesFieldsAlone ==
    [][(evaluations' < evaluations) =>
           UNCHANGED <<player1OriginalBuffer, player1ReversedBuffer, player2AttemptBuffer,
                       player2ReverseForwardBuffer, isRecording, isPlaying, recordingTime>>]_vars

\* a comparison has scored two recorded buffers, which are still in place
C13_ScoredWithBuffersKept ==
    /\ currentStep = RESULTS
    /\ view.step = RESULTS
    /\ player1OriginalBuffer \in Takes
    /\ player2ReverseForwardBuffer # NULL
    /\ similarityScore = Outcomes[player1OriginalBuffer, player2ReverseForwardBuffer].delivered[1]
    /\ similarityScore # FallbackScore

C16_ReversedSlotsMirrorTheirSources ==
    /\ (player1ReversedBuffer # NULL) =>
           /\ player1OriginalBuffer # NULL
           /\ player1ReversedBuffer = reverseAudioBuffer(player1OriginalBuffer)
    /\ (player2ReverseForwardBuffer # NULL) =>
           /\ player2AttemptBuffer # NULL
           /\ player2ReverseForwardBuffer = reverseAudioBuffer(player2AttemptBuffer)

\* C17: scoring never stalls the game: once evaluatePerformance has been
\* called, its timer fires and the game comes to the RESULTS step with
\* similarityScore a number from 0 to 100, whether compareAudio scored the
\* two buffers or fell back to 30.
C17_EvaluationReachesResults ==
    (evaluations > 0) ~> (currentStep = RESULTS /\ similarityScore \in 0..100)

\* the timer fired after reset() had emptied the slots, and the game is at
\* RESULTS with the fallback score
C17_ResultsByFallback ==
    /\ evaluations = 0
    /\ currentStep = RESULTS
    /\ similarityScore = FallbackScore
    /\ player1OriginalBuffer = NULL
    /\ roundScores # <<>>
    /\ roundScores[Len(roundScores)].score = FallbackScore

\* C18: at most one score is recorded per turn: roundScores holds at most
\* one entry for each (round, playerIndex) pair, and turnsCompleted counts
\* each scored turn once.
C18_OneScorePerTurn ==
    /\ \A i, j \in DOMAIN roundScores :
           (/\ roundScores[i].round = roundScores[j].round
            /\ roundScores[i].playerIndex = roundScores[j].playerIndex) => i = j
    /\ turnsCompleted = Cardinality({<<roundScores[i].round, roundScores[i].playerIndex>> :
                                        i \in DOMAIN roundScores})

\* C19: no recording runs unbounded: a MediaRecorder that has started
\* recording is stopped, by Stop Recording or by the timer once
\* recordingTime has reached maxRecordingDuration, whatever reset, exitGame
\* and startGame do in between.
C19_EveryRecordingIsStopped ==
    (mediaRecorder # 0) ~> (mediaRecorder = 0)

\* C20: for a reference that is a pure tone at full scale inside the pitch
\* range and a candidate that is the same tone at half the amplitude lasting
\* nine tenths as long, compareAudio computes an energy match of 0.5, a
\* duration match of about 0.9 and a pitch match of about 1.0, and reports a
\* score above 50.
C20_QuieterShorterToneScoresAbove50 ==
    \A call \in Calls :
        (\E sampleRate \in {2000}, n \in ToneLengths :
            /\ call.reference = ToneBuffer(sampleRate, n, AmpUnit)
            /\ call.candidate = ToneBuffer(sampleRate, (n * 9) \div 10, AmpUnit \div 2))
        => LET terms == call.outcome.breakdown[1].terms
           IN  /\ Abs(terms.energyMatch - TermUnit \div 2) <= TermUnit \div 200
               /\ Abs(terms.durationMatch - (9 * TermUnit) \div 10) <= TermUnit \div 50
               /\ terms.pitchMatch >= (99 * TermUnit) \div 100
               /\ call.outcome.delivered[1] > 50

\* the longer full-scale tone was compared with its half-amplitude,
\* nine-tenths copy, and both were heard as voiced at the tone's frequency
C20_ComparedToneWithQuieterShorterCopy ==
    \E call \in Calls :
        /\ call.reference = ToneBuffer(2000, 10 * hopSize, AmpUnit)
        /\ call.candidate = ToneBuffer(2000, 9 * hopSize, AmpUnit \div 2)
        /\ call.outcome.breakdown[1].pitchContour1[1] = 500 * HzUnit
        /\ call.outcome.breakdown[1].pitchContour2[1] = 500 * HzUnit
        /\ call.outcome.delivered[1] \in 51..100

(***************************************************************************)
(* SpecExtract: extractMFCCFeatures and extractPitchContour, each applied  *)
(* on its own to channel 0 of a waveform of one or two frames: a single    *)
(* non-zero sample at one bin of the first frame, or a pulse train of one  *)
(* of the searched periods.                                                *)
(***************************************************************************)
\* audioData of `length` samples, all 0 but `amplitude` at index `bin`
OneBin(length, bin, amplitude) ==
    [i \in 1..length |-> IF i - 1 = bin THEN amplitude ELSE 0]

\* audioData of `length` samples with `amplitude` every `period` samples
PulseTrain(length, period, amplitude) ==
    [i \in 1..length |-> IF (i - 1) % period = 0 THEN amplitude ELSE 0]

ExtractLengths == {windowSize + 1, windowSize + hopSize + 1}

ExtractInputs ==
    {[sampleRate |-> r, channels |-> <<d>>] :
        r \in AnalysedRates,
        d \in UNION {{OneBin(n, bin, a) :
                         bin \in 0..((windowSize \div 2) - 1),
                         a \in {AmpUnit, AmpUnit \div 2}}
                     \cup {PulseTrain(n, period, AmpUnit) :
                         period \in (windowSize \div 4)..((windowSize \div 2) - 1)} :
                     n \in ExtractLengths}}

InitExtract ==
    /\ player1OriginalBuffer = NULL
    /\ player2ReverseForwardBuffer = NULL
    /\ completed = <<>>
    /\ sweptRawScore = 0
    /\ remapped = <<>>
    /\ firstContour = <<>>
    /\ secondContour = <<>>
    /\ pitchMatch = <<>>
    /\ waveform \in ExtractInputs
    /\ extracted = <<>>
    /\ ReverseIdle
    /\ GameIdle

\* an extractor's result replaces nothing but `extracted`
Extracting(descriptor, value) ==
    /\ extracted = <<>>
    /\ extracted' = <<[descriptor |-> descriptor, value |-> value]>>
    /\ UNCHANGED <<player1OriginalBuffer, player2ReverseForwardBuffer, completed,
                   sweptRawScore, remapped, firstContour, secondContour, pitchMatch,
                   waveform, reverseVars, audioVars, appVars>>

\* this.extractMFCCFeatures(normalized1, sampleRate)
ExtractMFCCFeatures ==
    Extracting("mfcc", extractMFCCFeatures(waveform.channels[1], waveform.sampleRate))

\* this.extractPitchContour(normalized1, sampleRate)
ExtractPitchContour ==
    Extracting("pitch", extractPitchContour(waveform.channels[1], waveform.sampleRate))

NextExtract == ExtractMFCCFeatures \/ ExtractPitchContour

SpecExtract == InitExtract /\ [][NextExtract]_vars

(***************************************************************************)
(* Claims about the extractors.                                            *)
(***************************************************************************)
\* the frame of audioData that starts at hop k - 1
FrameAt(audioData, k) ==
    Slice(audioData, (k - 1) * hopSize, (k - 1) * hopSize + windowSize)

\* the one of numBands bands whose lower edge is at or below bin i's frequency
\* and whose upper edge, if it has one, is above it
BandHolding(i, sampleRate) ==
    CHOOSE b \in 0..(numBands - 1) :
        /\ AtOrAboveBand(i, b, sampleRate)
        /\ b = numBands - 1 \/ ~AtOrAboveBand(i, b + 1, sampleRate)

\* C21: every frame of extractMFCCFeatures yields a vector of numBands
\* elements in which every bin i below windowSize/2 has its squared magnitude
\* in exactly one band, the band whose edges hold i*sampleRate/windowSize, so
\* that no bin's energy is dropped.
C21_EveryBinFeedsTheBandHoldingIt ==
    (extracted # <<>> /\ extracted[1].descriptor = "mfcc") =>
        \A k \in 1..Len(extracted[1].value) :
            /\ Len(extracted[1].value[k]) = numBands
            /\ extracted[1].value[k] =
                   FrameLogEnergies(FrameAt(waveform.channels[1], k),
                                    [i \in 0..((windowSize \div 2) - 1) |->
                                        BandHolding(i, waveform.sampleRate)])

\* C22: every frame of extractPitchContour holds 0 or a pitch between
\* minFreq and maxFreq, whatever the sample rate.
C22_PitchBetweenMinFreqAndMaxFreq ==
    (extracted # <<>> /\ extracted[1].descriptor = "pitch") =>
        \A k \in 1..Len(extracted[1].value) :
            \/ extracted[1].value[k] = 0
            \/ /\ extracted[1].value[k] >= minFreq * HzUnit
               /\ extracted[1].value[k] <= maxFreq * HzUnit

(***************************************************************************)
(* Claims about the order of a turn.                                       *)
(***************************************************************************)
\* C23: the PLAYER2_RECORDING step is never entered while
\* player1ReversedBuffer is null, and the game never invokes compareAudio
\* while player1OriginalBuffer or player2ReverseForwardBuffer is null.
C23_StagesOfATurnInOrder ==
    [][/\ (currentStep # PLAYER2_RECORDING /\ currentStep' = PLAYER2_RECORDING)
           => player1ReversedBuffer' # NULL
       /\ EvaluationTimer
           => (player1OriginalBuffer # NULL /\ player2ReverseForwardBuffer # NULL)]_vars

(***************************************************************************)
(* Claims about turns, rounds and the end of a game.                       *)
(***************************************************************************)
\* the entries of roundScores that belong to the player with this index
ScoresOf(playerIndex) ==
    {i \in 1..Len(roundScores) : roundScores[i].playerIndex = playerIndex}

\* C24: the game-over results are shown if and only if turnsCompleted is
\* totalRounds * 2 (6 in the program), roundScores then holds exactly
\* totalRounds entries of either player, and turnsCompleted never exceeds
\* totalRounds * 2.
C24_GameOverAfterAllTurns ==
    /\ turnsCompleted <= totalRounds * 2
    /\ view.step = RESULTS =>
           /\ view.isGameOver <=> turnsCompleted = totalRounds * 2
           /\ view.isGameOver =>
                  /\ Cardinality(ScoresOf(0)) = totalRounds
                  /\ Cardinality(ScoresOf(1)) = totalRounds

(***************************************************************************)
(* SpecTurns: a game of TurnRounds rounds that the players do not leave.   *)
(***************************************************************************)
InitTurns ==
    /\ player1OriginalBuffer = NULL
    /\ player2ReverseForwardBuffer = NULL
    /\ completed = <<>>
    /\ sweptRawScore = 0
    /\ remapped = <<>>
    /\ ContourIdle
    /\ ReverseIdle
    /\ GameLoaded(TurnRounds)

\* every recording decodes to the same take
NextTurns ==
    \/ \E player \in {1, 2} : GetUserMediaResolved(player)
    \/ \E player \in {1, 2} : CheckRecordingStarted(player)
    \/ RecordingTimerTick
    \/ \E player \in {1, 2} : OnStop(player, CHOOSE audioBuffer \in Takes : TRUE)
    \/ \E step \in {REVERSE_PLAYBACK, REVERSE_PLAYER2} : PlaybackEnded(step)
    \/ EvaluationTimer
    \/ StartGame
    \/ \E value1, value2 \in NameInputs : SubmitPlayerNames(value1, value2)
    \/ SelectCategory
    \/ ReadyToRecord
    \/ \E player \in {1, 2} : StartPlayerRecording(player)
    \/ StopPlayerRecording
    \/ PlayPlayer1Reversed
    \/ PlayerTwoReady
    \/ PlayPlayer2Reversed
    \/ EvaluatePerformance
    \/ NextTurn

SpecTurns == InitTurns /\ [][NextTurns]_vars

\* a turn starts: a new game, or a nextTurn() that does not return early
TurnStarts ==
    \/ StartGame
    \/ PlayAgain
    \/ NextTurn /\ currentRound' <= totalRounds

\* C25: nextTurn flips currentPlayerIndex between 0 and 1 and increments
\* currentRound exactly when the index wraps to 0, and at the start of every
\* turn turnsCompleted = 2 * (currentRound - 1) + currentPlayerIndex with
\* currentRound in 1..totalRounds.
C25_RoundsAdvanceInStepWithTurns ==
    [][/\ NextTurn =>
              /\ currentPlayerIndex' = 1 - currentPlayerIndex
              /\ currentRound' = currentRound + (IF currentPlayerIndex' = 0 THEN 1 ELSE 0)
       /\ TurnStarts =>
              /\ turnsCompleted' = 2 * (currentRound' - 1) + currentPlayerIndex'
              /\ currentRound' \in 1..totalRounds]_vars

(***************************************************************************)
(* Claims about the names of the players.                                  *)
(***************************************************************************)
\* C26: submitPlayerNames with a name that is empty once trimmed leaves
\* currentStep and playerNames unchanged, and whenever currentStep is beyond
\* PLAYER_NAMES both entries of playerNames are non-empty.
C26_NoStepBeyondNamesWithoutNames ==
    [][/\ (\E value1, value2 \in NameInputs :
               /\ Trim(value1) = <<>> \/ Trim(value2) = <<>>
               /\ SubmitPlayerNames(value1, value2))
           => UNCHANGED <<currentStep, playerNames>>
       /\ currentStep' > PLAYER_NAMES
           => (playerNames'[1] # <<>> /\ playerNames'[2] # <<>>)]_vars

(***************************************************************************)
(* SpecDouble: the recording steps of one game, where Start Recording can  *)
(* be clicked again while the microphone request of the first click is     *)
(* pending.                                                                *)
(***************************************************************************)
MaxDoubleStarts == 2

InitDouble ==
    /\ player1OriginalBuffer = NULL
    /\ player2ReverseForwardBuffer = NULL
    /\ completed = <<>>
    /\ sweptRawScore = 0
    /\ remapped = <<>>
    /\ ContourIdle
    /\ ReverseIdle
    /\ GameIdle

NextDouble ==
    \/ StartGame
    \/ \E value1, value2 \in NameInputs : SubmitPlayerNames(value1, value2)
    \/ SelectCategory
    \/ ReadyToRecord
    \/ \E player \in {1, 2} : StartRecordingUnder(player, MaxDoubleStarts)
    \/ \E player \in {1, 2} : GetUserMediaResolved(player)
    \/ \E player \in {1, 2} : GetUserMediaRejected(player)
    \/ \E player \in {1, 2} : CheckRecordingStarted(player)
    \/ RecordingTimerTick
    \/ StopPlayerRecording
    \/ \E player \in {1, 2} : OnStop(player, CHOOSE audioBuffer \in Takes : TRUE)

SpecDouble == InitDouble /\ [][NextDouble]_vars

\* C27: at any time at most one recording is in progress: at most one
\* recording timer is running, and so at most one MediaRecorder that was
\* started and not stopped has a timer, even when Start Recording is
\* requested again before the microphone request of the first call resolved.
C27_AtMostOneRecordingInProgress == intervals <= 1

(***************************************************************************)
(* Claims about a recording that cannot be started.                        *)
(***************************************************************************)
\* the four buffer slots of AudioManager
bufferSlots ==
    <<player1OriginalBuffer, player1ReversedBuffer, player2AttemptBuffer,
      player2ReverseForwardBuffer>>

RecordedSlot(player) ==
    IF player = 1 THEN player1OriginalBuffer ELSE player2AttemptBuffer

\* C29: every recording that did start eventually reaches the end of its
\* onstop handler: the decoded buffer is in the slot of its player and
\* isRecording and recordingTime are cleared.
C29_StartedRecordingCompletes ==
    \A player \in {1, 2} :
        (mediaRecorder = player)
            ~> (RecordedSlot(player) # NULL /\ ~isRecording /\ recordingTime = 0)

(***************************************************************************)
(* Claims about reversing without a recording.                             *)
(***************************************************************************)
\* C30: reversePlayer1 (reversePlayer2) called while player1OriginalBuffer
\* (player2AttemptBuffer) is null hands null to its callback: no playback
\* starts, the playback screen is rendered once more without a reversed
\* buffer, and all four buffer slots are left as they were.
C30_ReversingNothingChangesNoSlot ==
    [][/\ (PlayPlayer1Reversed /\ player1ReversedBuffer = NULL
                               /\ player1OriginalBuffer = NULL)
           => /\ UNCHANGED <<bufferSlots, isPlaying, playbacks, currentStep>>
              /\ view' = PlaybackView(REVERSE_PLAYBACK, isPlaying, NULL)
       /\ (PlayPlayer2Reversed /\ player2ReverseForwardBuffer = NULL
                               /\ player2AttemptBuffer = NULL)
           => /\ UNCHANGED <<bufferSlots, isPlaying, playbacks, currentStep>>
              /\ view' = PlaybackView(REVERSE_PLAYER2, isPlaying, NULL)]_vars

\* Play Reversed can be clicked on the Player 1 playback screen while there
\* is neither a recording of Player 1 nor its reversal
C30_PlayReversedWithoutARecording ==
    /\ Clickable(REVERSE_PLAYBACK)
    /\ ~view.isPlaying
    /\ Pending < MaxPending
    /\ player1ReversedBuffer = NULL
    /\ player1OriginalBuffer = NULL

(***************************************************************************)
(* SpecCallback: compareAudio(onComplete) with a callback that may throw.  *)
(* throwsAt holds the invocations, counted from 1, at which it throws.     *)
(***************************************************************************)
\* What a call of compareAudio whose callback returns normally would have
\* made (`outcome`), with the callback throwing at the invocations throwsAt.
\* The first invocation is inside the try block: an exception it throws is
\* caught and the catch block calls onComplete(30); an exception of an
\* invocation made by the catch block leaves compareAudio.
compareAudioThrowing(outcome, throwsAt) ==
    IF outcome.caught
    THEN [outcome EXCEPT !.escaped = 1 \in throwsAt]
    ELSE IF 1 \in throwsAt
    THEN [outcome EXCEPT !.delivered = outcome.delivered \o <<FallbackScore>>,
                         !.caught = TRUE,
                         !.escaped = 2 \in throwsAt]
    ELSE outcome

\* audioManager.compareAudio(onComplete), once, for every way onComplete
\* can throw
CompareAudioCallbackThrowing ==
    /\ completed = <<>>
    /\ \E throwsAt \in SUBSET {1, 2} :
           completed' = <<[reference |-> player1OriginalBuffer,
                           candidate |-> player2ReverseForwardBuffer,
                           throwsAt |-> throwsAt,
                           outcome |-> compareAudioThrowing(
                                           Outcomes[player1OriginalBuffer,
                                                    player2ReverseForwardBuffer],
                                           throwsAt)]>>
    /\ UNCHANGED <<player1OriginalBuffer, player2ReverseForwardBuffer, sweptRawScore,
                   remapped, contourVars, reverseVars, audioVars, appVars>>

NextCallback == CompareAudioCallbackThrowing

SpecCallback == InitCompare /\ [][NextCallback]_vars

\* C31: compareAudio invokes its onComplete callback exactly once per call,
\* on every path, also when the callback throws while handling the score.
C31_CallbackInvokedOncePerCall ==
    \A i \in 1..Len(completed) : Len(completed[i].outcome.delivered) = 1

(***************************************************************************)
(* Claims about callbacks that outlive a reset.                            *)
(***************************************************************************)
\* Nothing was started since the last reset: the home screen is shown
\* (exitGame), or the names screen, which only startGame and playAgain
\* render.  Neither offers a button that records, plays or evaluates, so
\* every callback the browser still owes the page is of an earlier game.
NothingStartedSinceReset ==
    activeScreen = "homeScreen" \/ view.step = PLAYER_NAMES

\* C32: after a reset no pending callback of the earlier turn or game
\* changes currentStep, similarityScore, roundScores, turnsCompleted or a
\* buffer slot.
C32_StaleCallbacksChangeNothing ==
    [][(NothingStartedSinceReset /\ Callback) =>
          UNCHANGED <<currentStep, similarityScore, roundScores, turnsCompleted,
                      bufferSlots>>]_vars

(***************************************************************************)
(* Claims about the buffers of a turn.                                     *)
(***************************************************************************)
\* C33: every turn starts with all four buffer slots null (reset by
\* startGame, playAgain and nextTurn), and while nothing was started since
\* the reset no slot is filled, so that no slot holds audio of an earlier
\* turn.
C33_TurnStartsAndStaysWithoutOldAudio ==
    [][/\ TurnStarts =>
              /\ player1OriginalBuffer' = NULL
              /\ player1ReversedBuffer' = NULL
              /\ player2AttemptBuffer' = NULL
              /\ player2ReverseForwardBuffer' = NULL
       /\ (activeScreen = "gameScreen" /\ view.step = PLAYER_NAMES)
              => UNCHANGED bufferSlots]_vars

(***************************************************************************)
(* Claims about playback.                                                  *)
(***************************************************************************)
\* the buffer sources started by playAudioBuffer that have not ended
Playing == playbacks[REVERSE_PLAYBACK] + playbacks[REVERSE_PLAYER2]

\* C34: isPlaying is true exactly while a source started by playAudioBuffer
\* has not ended, at most one source plays at a time, and a playback screen
\* shown during a playback has its Play Reversed button disabled.
C34_OnePlaybackWithTheButtonDisabled ==
    /\ isPlaying <=> Playing > 0
    /\ Playing <= 1
    /\ (Playing > 0 /\ view.step \in {REVERSE_PLAYBACK, REVERSE_PLAYER2}) => view.isPlaying

=========================================================================
